---- MODULE Spec2Model ----
(***************************************************************************)
(* ReverbWave: the spectrum pipeline's sample FIFO (SpectrumAnalyzer) and  *)
(* the Schroeder reverb engine (SimpleReverb), as state machines, with the *)
(* engine's high-frequency delay and crossover, the harmonic detuner, the  *)
(* SimpleAudioProcessor parameter interface, the analyser's display        *)
(* settings, the FFT front end, the wave animation and the plugin's hand-off *)
(* of spectra to its editor each driven on their own.                      *)
(*                                                                         *)
(* Floating-point samples and coefficients are fixed-point integers in     *)
(* units of 1/One; products are rescaled with Mul.  Delay-line lengths are *)
(* computed by the code's own formula from the code's own tuning tables,   *)
(* at low sample rates so that the lines stay short.                       *)
(***************************************************************************)
EXTENDS Integers, Sequences, FiniteSets, TLC

(***************************************************************************)
(* Bounds of the model.                                                    *)
(***************************************************************************)
\* Window length of the FIFO (the code's fftSize is 1 << 11; the protocol
\* is the same for every length, the model runs a short window).
fftSize == 3
\* Sample values pushed into the FIFO are drawn from 1..MaxSample.
MaxSample == 2
\* At most this many pushSample calls in one behaviour.
MaxPushes == 8

\* Fixed-point resolution: the value 1.0f is the integer One.
One == 100
\* Longest buffer handed to processMono / processStereo in one call.
MaxBlock == 1
\* At most this many calls of the engine's API in one behaviour.
MaxCalls == 2
\* At most this many processing calls in one behaviour of a configured
\* engine that is only fed blocks (SpecTail).
MaxTail == 5
\* At most this many calls in one behaviour of a configured engine that is
\* fed mono blocks and reset (SpecRestart); length of the blocks the engine
\* is compared on after a reset().
MaxRestartCalls == 4
ProbeLen == 3
\* At most this many calls in one behaviour of the high-frequency delay
\* driven on its own (SpecHighFreq).
MaxHFCalls == 6
\* At most this many processHarmonicDetuning calls in one behaviour, and at
\* most this many of them with a non-zero sample.
MaxDetuneCalls == 52
MaxLoud == 1
\* The floating-point format of the crossover model: significand bits, and
\* the binary digits after the point of the finest grid (1.0f is 2^FracBits).
Precision == 3
FracBits == 4
\* At most this many splitFrequencies calls in one behaviour (SpecSplit).
MaxSplitCalls == 2
\* Two-thread runs of the engine (SpecParams): samples per processStereo
\* batch, batches per behaviour, setParameters calls per behaviour.
BatchLen == 2
MaxBatches == 1
MaxSets == 1
\* At most this many calls of the SimpleAudioProcessor interface in one
\* behaviour (SpecProcessor).
MaxProcessorCalls == 3
\* Arguments of setAnimationMode / setColorScheme are drawn from
\* -MaxModeArg .. MaxModeArg; at most MaxModeCalls setter calls.
MaxModeArg == 4
MaxModeCalls == 3
\* FFT objects of order 1 .. MaxOrder; numSamples from -MaxExtra to
\* size + MaxExtra; at most MaxSpectrumCalls calculateMagnitudeSpectrum calls.
MaxOrder == 3
MaxExtra == 1
MaxSpectrumCalls == 1
\* Buffers handed to FFT::perform hold at most MaxNonZero non-zero elements;
\* at most MaxPerformCalls perform() calls in one behaviour (SpecFFT).
MaxNonZero == 2
MaxPerformCalls == 1
\* Analyzers with an FFT of order 2 .. MaxScopeOrder; at most MaxScopeCalls
\* update() calls in one behaviour (SpecScope).
MaxScopeOrder == 7
MaxScopeCalls == 2
\* Two instances side by side (SpecShared): each makes at most this many
\* processCrossover and this many processHarmonicDetuning calls.
MaxSharedCalls == 2
\* Display vectors of ScopeBins bins (the code's scopeSize is 512); at most
\* MaxAnimCalls update() calls in one behaviour (SpecAnim).
ScopeBins == 4
MaxAnimCalls == 2
\* Plugin: PlugBins display bins (the code's scopeSize is 512); at most
\* MaxEditors editor windows opened, MaxTimers timer callbacks and
\* MaxBlocks audio blocks in one behaviour (SpecPlugin).
PlugBins == 2
MaxEditors == 2
MaxTimers == 2
MaxBlocks == 2

Samples == 1..MaxSample

VARIABLES
  \* SpectrumAnalyzer fields
  fifo,               \* std::vector<float> fifo (1-based here)
  fifoIndex,          \* int fifoIndex
  nextFFTBlockReady,  \* bool nextFFTBlockReady
  fftData,            \* std::vector<float> fftData, the analysis buffer
  analysed,           \* the frame last handed to calculateMagnitudeSpectrum
  \* history of the calls, kept to state the properties
  pushed,             \* every sample pushed so far, in push order
  copied,             \* positions of `pushed` that were part of a snapshot
  lastOp,             \* the call that produced the current state
  nAnalysed,          \* frames analysed by the last update() call
  \* two-thread execution of pushSample and update(), statement by statement
  pcA,                \* audio thread: position inside pushSample
  sampleA,            \* audio thread: the argument of the running pushSample
  pendA,              \* audio thread: stores of lines 147-148 not yet performed
  pcR,                \* render thread: position inside update()
  pendR,              \* render thread: accesses of lines 160-171 not yet performed
  \* the reverb engine and its caller
  reverb,             \* the fields of the SimpleReverb object
  leftBuffer,         \* caller's buffer (mono buffer or left channel) after the last call
  rightBuffer,        \* caller's right channel after the last call
  fault,              \* "none", or what an access outside a delay line led to
  lastCall,           \* the engine call that produced the current state
  nCalls,             \* engine calls made so far
  silent,             \* every sample processed so far was 0
  frozenEnergy,       \* a non-zero sample was processed under freezeMode = 1.0
                      \* and the engine was not reconfigured since
  stereoTap,          \* processStereo's locals at the last sample it processed
  \* the high-frequency delay of the engine, driven sample by sample
  hfIn,               \* per channel: the samples passed since the last reset()
  hfOut,              \* what the last processHighFreqDelay call returned
  hfChannel,          \* the channel of that call (0: no call yet)
  \* harmonic_detuning.cpp: the file's static state and its caller
  detune,             \* the four circular buffers and their positions
  dtParams,           \* the HarmonicDetuningParams passed with every call
  dtStamp,            \* per buffer slot: the call that last wrote it (0: none)
  dtRead,             \* stamps of the two slots the last call read back
  dtOut,              \* leftSample, rightSample after the last call
  dtCalls,            \* processHarmonicDetuning calls made so far
  dtLoud,             \* calls so far that passed a non-zero sample
  \* the crossover splitter in floating point
  fsCoeff,            \* lowpassCoeff
  fsState,            \* lowpassState[2]
  fsBefore,           \* lowpassState[channel] when the last call was made
  fsIn,               \* input of the last splitFrequencies call
  fsOut,              \* lowOut, highOut of that call
  fsChannel,          \* its channel (0: no call yet)
  fsCalls,            \* splitFrequencies calls made so far
  \* setParameters on a control thread while the audio thread processes
  ctlPc,              \* control thread: position inside setParameters
  ctlParams,          \* control thread: the argument of the running call
  ctlCalls,           \* setParameters calls started so far
  audPos,             \* audio thread: index of the next sample (0: no batch)
  audSpread,          \* audio thread: the local `spread` of processStereo
  audSeen,            \* parameters and coefficients read for the batch's samples
  audBatches,         \* processStereo calls started so far
  \* SimpleAudioProcessor: its own fields next to the engine
  apParameters,       \* SimpleReverb::Parameters parameters
  apLastSet,          \* argument of the last setReverbParameters (<<>>: none)
  apGot,              \* what the last getReverbParameters returned (<<>>: none)
  apLast,             \* the processor call that produced the current state
  apCalls,            \* processor calls made so far
  \* SpectrumAnalyzer: the display settings
  animationMode,      \* int animationMode
  colorScheme,        \* int colorScheme
  modeArg,            \* argument of the last setAnimationMode (<<>>: none)
  schemeArg,          \* argument of the last setColorScheme (<<>>: none)
  modeCalls,          \* setter calls made so far
  \* FFT::calculateMagnitudeSpectrum and its caller
  cmSize,             \* FFT::size of the object called (0: no call yet)
  cmNumSamples,       \* the numSamples argument of the last call
  cmFrame,            \* the local fftData when perform() is called
  cmDivisors,         \* the divisors the window formula was evaluated with
  cmWrites,           \* the indices of fftData the two loops wrote
  cmOutput,           \* the magnitudes returned: "finite" or "nan"
  cmFault,            \* "none", or what a write outside fftData led to
  cmCalls,            \* calls made so far
  \* FFT::perform and its caller
  pfOrder,            \* FFT::order of the object called
  pfInput,            \* the buffer when the last perform() call was made (<<>>: none)
  pfReversed,         \* the buffer after the bit-reversal pass of that call
  pfData,             \* the caller's buffer (0-based), transformed in place
  pfCalls,            \* perform() calls made so far
  \* SpectrumAnalyzer::update(): the arrays it indexes
  uaOrder,            \* order of the analyzer's FFT (fftSize is 1 << order)
  uaReady,            \* bool nextFFTBlockReady
  uaFrame,            \* std::vector<float> fftData, the frame to analyse
  uaScopeWrites,      \* indices of scopeData written by the last update()
  uaScopeReads,       \* fftDataIndex of every display bin in the last update()
  uaFault,            \* "none", or what an access outside scopeData led to
  uaCalls,            \* update() calls made so far
  \* two instances on the statics of processCrossover and harmonic_detuning.cpp
  shStream,           \* the samples both instances are fed, in order
  shAmount,           \* harmDetuneAmount of both instances
  shLP,               \* static float leftLP, rightLP of processCrossover
  shDetune,           \* the static buffers and positions of harmonic_detuning.cpp
  shWriter,           \* per static: the instance whose call stored into it last (0: none)
  shForeign,          \* a call has read a static last stored by the other instance
  shXOut,             \* per instance: what its processCrossover calls returned
  shDOut,             \* per instance: what its processHarmonicDetuning calls returned
  \* SpectrumAnalyzer: the display vectors and the wave animation
  targetSpectrumValues, \* std::vector<float> targetSpectrumValues
  spectrumValues,     \* std::vector<float> spectrumValues
  wavePoints,         \* std::vector<float> wavePoints
  waveVelocities,     \* std::vector<float> waveVelocities
  waveTargets,        \* std::vector<float> waveTargets
  spreadForces,       \* the local spreadForces of the last updateAnimation()
  animCalls,          \* update() calls made so far
  \* plugin: CustomReverbAudioProcessor and its editor's SpectrumAnalyzerComponent
  spectrumAnalyzer,   \* the processor's pointer: 0 is nullptr, n the n-th component
  compState,          \* "none", "alive", "unregistered" (in its destructor), "destroyed"
  plEditors,          \* components constructed so far (the newest one's number)
  plTarget,           \* the component's targetSpectrumValues
  plSpectrum,         \* the component's spectrumValues
  guiPc,              \* message thread: "idle", "destructor", "timer"
  guiPos,             \* index of timerCallback's smoothing loop (1-based)
  plTimers,           \* timerCallback() calls so far
  audPc,              \* audio thread: position in processBlock
  audChecked,         \* pointer value seen by the null check
  audCallee,          \* component updateSpectrum was called on
  audWritePos,        \* index of updateSpectrum's loop (1-based)
  plScope,            \* the processor's scopeData
  plReady,            \* the processor's nextFFTBlockReady
  plBlocks,           \* processBlock() calls so far
  calledUnregistered, \* updateSpectrum was called on a component after it unregistered
  plFault             \* "none", "nullCall", "useAfterFree"

saVars == <<fifo, fifoIndex, nextFFTBlockReady, fftData, analysed>>
histVars == <<pushed, copied, lastOp, nAnalysed>>
thrVars == <<pcA, sampleA, pendA, pcR, pendR>>
rvVars == <<reverb, leftBuffer, rightBuffer, fault, lastCall, nCalls, silent,
            frozenEnergy, stereoTap>>
spVars == <<saVars, histVars, thrVars>>
hfVars == <<hfIn, hfOut, hfChannel>>
dtVars == <<detune, dtParams, dtStamp, dtRead, dtOut, dtCalls, dtLoud>>
fsVars == <<fsCoeff, fsState, fsBefore, fsIn, fsOut, fsChannel, fsCalls>>
ccVars == <<ctlPc, ctlParams, ctlCalls, audPos, audSpread, audSeen, audBatches>>
apVars == <<apParameters, apLastSet, apGot, apLast, apCalls>>
amVars == <<animationMode, colorScheme, modeArg, schemeArg, modeCalls>>
cmVars == <<cmSize, cmNumSamples, cmFrame, cmDivisors, cmWrites, cmOutput, cmFault, cmCalls>>
pfVars == <<pfOrder, pfInput, pfReversed, pfData, pfCalls>>
uaVars == <<uaOrder, uaReady, uaFrame, uaScopeWrites, uaScopeReads, uaFault, uaCalls>>
shVars == <<shStream, shAmount, shLP, shDetune, shWriter, shForeign, shXOut, shDOut>>
anVars == <<targetSpectrumValues, spectrumValues, wavePoints, waveVelocities, waveTargets, spreadForces, animCalls>>
plVars == <<spectrumAnalyzer, compState, plEditors, plTarget, plSpectrum, guiPc, guiPos, plTimers, audPc, audChecked, audCallee, audWritePos, plScope, plReady, plBlocks, calledUnregistered, plFault>>
xtVars == <<hfVars, dtVars, fsVars, ccVars, apVars, amVars, cmVars, pfVars, uaVars, shVars, anVars, plVars>>
\* xtVars without one group
restHF == <<dtVars, fsVars, ccVars, apVars, amVars, cmVars, pfVars, uaVars, shVars, anVars, plVars>>
restDT == <<hfVars, fsVars, ccVars, apVars, amVars, cmVars, pfVars, uaVars, shVars, anVars, plVars>>
restFS == <<hfVars, dtVars, ccVars, apVars, amVars, cmVars, pfVars, uaVars, shVars, anVars, plVars>>
restCC == <<hfVars, dtVars, fsVars, apVars, amVars, cmVars, pfVars, uaVars, shVars, anVars, plVars>>
restAP == <<hfVars, dtVars, fsVars, ccVars, amVars, cmVars, pfVars, uaVars, shVars, anVars, plVars>>
restAM == <<hfVars, dtVars, fsVars, ccVars, apVars, cmVars, pfVars, uaVars, shVars, anVars, plVars>>
restCM == <<hfVars, dtVars, fsVars, ccVars, apVars, amVars, pfVars, uaVars, shVars, anVars, plVars>>
restPF == <<hfVars, dtVars, fsVars, ccVars, apVars, amVars, cmVars, uaVars, shVars, anVars, plVars>>
restUA == <<hfVars, dtVars, fsVars, ccVars, apVars, amVars, cmVars, pfVars, shVars, anVars, plVars>>
restSH == <<hfVars, dtVars, fsVars, ccVars, apVars, amVars, cmVars, pfVars, uaVars, anVars, plVars>>
restAN == <<hfVars, dtVars, fsVars, ccVars, apVars, amVars, cmVars, pfVars, uaVars, shVars, plVars>>
restPL == <<hfVars, dtVars, fsVars, ccVars, apVars, amVars, cmVars, pfVars, uaVars, shVars, anVars>>
vars == <<spVars, rvVars, xtVars>>

Zeros(n) == [i \in 1..n |-> 0]

(***************************************************************************)
(* SpectrumAnalyzer()                                                      *)
(***************************************************************************)
SAInit ==
  /\ fifo = Zeros(fftSize)
  /\ fifoIndex = 0
  /\ nextFFTBlockReady = FALSE
  /\ fftData = Zeros(fftSize)
  /\ analysed = Zeros(fftSize)

HistInit ==
  /\ pushed = <<>>
  /\ copied = {}
  /\ lastOp = "init"
  /\ nAnalysed = 0

ThreadsIdle ==
  /\ pcA = "idle"
  /\ sampleA = 0
  /\ pendA = {}
  /\ pcR = "idle"
  /\ pendR = {}

\* No call of the sample-by-sample drivers has been made.
HFIdle ==
  /\ hfIn = <<<<>>, <<>>>>
  /\ hfOut = 0
  /\ hfChannel = 0

HARMONIC_BUFFER_SIZE == 50

\* The static initialisers of harmonic_detuning.cpp.
DetuneInit ==
  [ oddHarmonicBuffer |-> <<Zeros(HARMONIC_BUFFER_SIZE), Zeros(HARMONIC_BUFFER_SIZE)>>,
    evenHarmonicBuffer |-> <<Zeros(HARMONIC_BUFFER_SIZE), Zeros(HARMONIC_BUFFER_SIZE)>>,
    oddHarmonicFilter |-> <<0, 0>>,
    evenHarmonicFilter |-> <<0, 0>> ]

DTIdle ==
  /\ detune = DetuneInit
  /\ dtParams = [amount |-> 0, mix |-> 0]
  /\ dtStamp = [odd |-> Zeros(HARMONIC_BUFFER_SIZE), even |-> Zeros(HARMONIC_BUFFER_SIZE)]
  /\ dtRead = [odd |-> 0, even |-> 0]
  /\ dtOut = <<0, 0>>
  /\ dtCalls = 0
  /\ dtLoud = 0

FSIdle ==
  /\ fsCoeff = 0
  /\ fsState = <<0, 0>>
  /\ fsBefore = 0
  /\ fsIn = 0
  /\ fsOut = [low |-> 0, high |-> 0]
  /\ fsChannel = 0
  /\ fsCalls = 0

CCIdle ==
  /\ ctlPc = "idle"
  /\ ctlParams = <<>>
  /\ ctlCalls = 0
  /\ audPos = 0
  /\ audSpread = 0
  /\ audSeen = {}
  /\ audBatches = 0

APIdle ==
  /\ apParameters = <<>>
  /\ apLastSet = <<>>
  /\ apGot = <<>>
  /\ apLast = "none"
  /\ apCalls = 0

AMIdle ==
  /\ animationMode = 0
  /\ colorScheme = 0
  /\ modeArg = <<>>
  /\ schemeArg = <<>>
  /\ modeCalls = 0

CMIdle ==
  /\ cmSize = 0
  /\ cmNumSamples = 0
  /\ cmFrame = <<>>
  /\ cmDivisors = {}
  /\ cmWrites = {}
  /\ cmOutput = "finite"
  /\ cmFault = "none"
  /\ cmCalls = 0

PFIdle ==
  /\ pfOrder = 0
  /\ pfInput = <<>>
  /\ pfReversed = <<>>
  /\ pfData = <<>>
  /\ pfCalls = 0

UAIdle ==
  /\ uaOrder = 0
  /\ uaReady = FALSE
  /\ uaFrame = <<>>
  /\ uaScopeWrites = {}
  /\ uaScopeReads = <<>>
  /\ uaFault = "none"
  /\ uaCalls = 0

SHIdle ==
  /\ shStream = <<>>
  /\ shAmount = 0
  /\ shLP = <<0, 0>>
  /\ shDetune = DetuneInit
  /\ shWriter = [crossover |-> 0, detune |-> 0]
  /\ shForeign = FALSE
  /\ shXOut = <<<<>>, <<>>>>
  /\ shDOut = <<<<>>, <<>>>>

ANIdle ==
  /\ targetSpectrumValues = <<>>
  /\ spectrumValues = <<>>
  /\ wavePoints = <<>>
  /\ waveVelocities = <<>>
  /\ waveTargets = <<>>
  /\ spreadForces = <<>>
  /\ animCalls = 0

PLIdle ==
  /\ spectrumAnalyzer = 0
  /\ compState = "none"
  /\ plEditors = 0
  /\ plTarget = <<>>
  /\ plSpectrum = <<>>
  /\ guiPc = "idle"
  /\ guiPos = 0
  /\ plTimers = 0
  /\ audPc = "idle"
  /\ audChecked = 0
  /\ audCallee = 0
  /\ audWritePos = 0
  /\ plScope = <<>>
  /\ plReady = FALSE
  /\ plBlocks = 0
  /\ calledUnregistered = FALSE
  /\ plFault = "none"

XtIdle == HFIdle /\ DTIdle /\ FSIdle /\ CCIdle /\ APIdle /\ AMIdle /\ CMIdle /\ PFIdle /\ UAIdle /\ SHIdle /\ ANIdle /\ PLIdle

(***************************************************************************)
(* pushSample(sample): the state after the call, as a record.              *)
(***************************************************************************)
pushSampleNoGuard(sample) ==
  LET full == fifoIndex = fftSize
      idx  == IF full THEN 0 ELSE fifoIndex
  IN  [ fftData |-> IF full THEN fifo ELSE fftData,
        ready   |-> IF full THEN TRUE ELSE nextFFTBlockReady,
        fifo    |-> [fifo EXCEPT ![idx + 1] = sample],
        fifoIndex |-> idx + 1,
        snapshot |-> full ]

pushSampleEager(sample) ==
  LET nfifo == [fifo EXCEPT ![fifoIndex + 1] = sample]
      full  == fifoIndex + 1 = fftSize
      copy  == full /\ ~nextFFTBlockReady
  IN  [ fftData |-> IF copy THEN nfifo ELSE fftData,
        ready   |-> IF copy THEN TRUE ELSE nextFFTBlockReady,
        fifo    |-> nfifo,
        fifoIndex |-> IF full THEN 0 ELSE fifoIndex + 1,
        snapshot |-> copy ]

pushSample(sample) ==
  LET full == fifoIndex = fftSize
      copy == full /\ ~nextFFTBlockReady
      idx  == IF full THEN 0 ELSE fifoIndex
  IN  [ fftData |-> IF copy THEN fifo ELSE fftData,
        ready   |-> IF copy THEN TRUE ELSE nextFFTBlockReady,
        fifo    |-> [fifo EXCEPT ![idx + 1] = sample],
        fifoIndex |-> idx + 1,
        snapshot |-> copy ]

PushSample ==
  /\ Len(pushed) < MaxPushes
  /\ \E sample \in Samples :
       LET r == pushSample(sample)
           n == Len(pushed)
       IN  /\ fftData' = r.fftData
           /\ nextFFTBlockReady' = r.ready
           /\ fifo' = r.fifo
           /\ fifoIndex' = r.fifoIndex
           /\ pushed' = Append(pushed, sample)
           /\ copied' = IF r.snapshot
                          THEN copied \cup ((n - fftSize + 1)..n)
                          ELSE copied
  /\ lastOp' = "push"
  /\ UNCHANGED <<analysed, nAnalysed, thrVars, rvVars, xtVars>>

(***************************************************************************)
(* update(): analyses the pending frame, if any, and clears the flag.  The *)
(* magnitude spectrum, the remap and the animation are functions of the    *)
(* frame analysed and of the display state; they do not feed back into     *)
(* the FIFO exchange.                                                      *)
(***************************************************************************)
updateKeepFlag ==
  [ analysed |-> IF nextFFTBlockReady THEN fftData ELSE analysed,
    ready    |-> nextFFTBlockReady,
    frames   |-> IF nextFFTBlockReady THEN 1 ELSE 0 ]

update ==
  [ analysed |-> IF nextFFTBlockReady THEN fftData ELSE analysed,
    ready    |-> IF nextFFTBlockReady THEN FALSE ELSE nextFFTBlockReady,
    frames   |-> IF nextFFTBlockReady THEN 1 ELSE 0 ]

Update ==
  /\ analysed' = update.analysed
  /\ nextFFTBlockReady' = update.ready
  /\ nAnalysed' = update.frames
  /\ lastOp' = "update"
  /\ UNCHANGED <<fifo, fifoIndex, fftData, pushed, copied, thrVars, rvVars, xtVars>>

\* The analyzer on its own: no engine object has been constructed.
\* No stereo sample processed yet.
NoTap == [valid |-> FALSE, spread |-> 0, allpassOutL |-> 0, allpassOutR |-> 0,
          wetL |-> 0, wetR |-> 0]

NoEngine ==
  /\ reverb = <<>>
  /\ leftBuffer = <<>>
  /\ rightBuffer = <<>>
  /\ fault = "none"
  /\ lastCall = "none"
  /\ nCalls = 0
  /\ silent = TRUE
  /\ frozenEnergy = FALSE
  /\ stereoTap = NoTap

Init == SAInit /\ HistInit /\ ThreadsIdle /\ NoEngine /\ XtIdle

Next == PushSample \/ Update

Spec == Init /\ [][Next]_vars

(***************************************************************************)
(* The exchange run for ever: pushSample and update() called again and     *)
(* again, as SimpleAudioProcessor::processBlock and the demo loop of main  *)
(* do for as long as audio is processed.  The record of the samples pushed *)
(* is not kept here, so that a behaviour can be infinite.                  *)
(***************************************************************************)
\* Two sample values, enough to tell one frame from the next.
LiveSamples == {1, 2}

PushSampleLive ==
  /\ \E sample \in LiveSamples :
       \E r \in {pushSample(sample)} :
         /\ fftData' = r.fftData
         /\ nextFFTBlockReady' = r.ready
         /\ fifo' = r.fifo
         /\ fifoIndex' = r.fifoIndex
  /\ lastOp' = "push"
  /\ UNCHANGED <<analysed, pushed, copied, nAnalysed, thrVars, rvVars, xtVars>>

NextLive == PushSampleLive \/ Update

InitLive == SAInit /\ HistInit /\ ThreadsIdle /\ NoEngine /\ XtIdle

\* Both calls keep being made.
SpecLive ==
  InitLive /\ [][NextLive]_vars /\ WF_vars(PushSampleLive) /\ WF_vars(Update)

(***************************************************************************)
(* pushSample on the audio thread and update() on the render thread, one   *)
(* memory access at a time.  fifoIndex, nextFFTBlockReady and the buffers  *)
(* are plain fields (int, bool, std::vector<float>): nothing orders the    *)
(* stores of one thread as seen by the other, so the element stores of the *)
(* copy and the store to the flag (FlagAccess below) become visible in     *)
(* any order, program order included.                                      *)
(***************************************************************************)
FlagAccess == fftSize + 1
FrameAccesses == (1..fftSize) \cup {FlagAccess}

MayPerform(pend, k) == k \in pend

A_Call ==
  /\ pcA = "idle"
  /\ \E sample \in Samples : sampleA' = sample
  /\ pcA' = IF fifoIndex = fftSize THEN "check" ELSE "write"
  /\ UNCHANGED <<saVars, histVars, pendA, pcR, pendR, rvVars, xtVars>>

A_CheckReady ==
  /\ pcA = "check"
  /\ IF ~nextFFTBlockReady
       THEN pcA' = "copy" /\ pendA' = FrameAccesses
       ELSE pcA' = "reset" /\ pendA' = {}
  /\ UNCHANGED <<saVars, histVars, sampleA, pcR, pendR, rvVars, xtVars>>

A_CopyStore ==
  /\ pcA = "copy"
  /\ \E k \in pendA :
       /\ MayPerform(pendA, k)
       /\ IF k = FlagAccess
            THEN nextFFTBlockReady' = TRUE /\ fftData' = fftData
            ELSE fftData' = [fftData EXCEPT ![k] = fifo[k]]
                 /\ nextFFTBlockReady' = nextFFTBlockReady
       /\ pendA' = pendA \ {k}
       /\ pcA' = IF pendA' = {} THEN "reset" ELSE "copy"
  /\ UNCHANGED <<fifo, fifoIndex, analysed, histVars, sampleA, pcR, pendR, rvVars, xtVars>>

A_ResetIndex ==
  /\ pcA = "reset"
  /\ fifoIndex' = 0
  /\ pcA' = "write"
  /\ UNCHANGED <<fifo, nextFFTBlockReady, fftData, analysed, histVars,
                 sampleA, pendA, pcR, pendR, rvVars, xtVars>>

A_Write ==
  /\ pcA = "write"
  /\ fifo' = [fifo EXCEPT ![fifoIndex + 1] = sampleA]
  /\ fifoIndex' = fifoIndex + 1
  /\ pcA' = "idle"
  /\ UNCHANGED <<nextFFTBlockReady, fftData, analysed, histVars,
                 sampleA, pendA, pcR, pendR, rvVars, xtVars>>

R_Call ==
  /\ pcR = "idle"
  /\ IF nextFFTBlockReady
       THEN pcR' = "analyse" /\ pendR' = FrameAccesses
       ELSE pcR' = "smooth" /\ pendR' = {}
  /\ UNCHANGED <<saVars, histVars, pcA, sampleA, pendA, rvVars, xtVars>>

R_Access ==
  /\ pcR = "analyse"
  /\ \E k \in pendR :
       /\ MayPerform(pendR, k)
       /\ IF k = FlagAccess
            THEN nextFFTBlockReady' = FALSE /\ analysed' = analysed
            ELSE analysed' = [analysed EXCEPT ![k] = fftData[k]]
                 /\ nextFFTBlockReady' = nextFFTBlockReady
       /\ pendR' = pendR \ {k}
       /\ pcR' = IF pendR' = {} THEN "smooth" ELSE "analyse"
  /\ UNCHANGED <<fifo, fifoIndex, fftData, histVars, pcA, sampleA, pendA, rvVars, xtVars>>

R_Smooth ==
  /\ pcR = "smooth"
  /\ pcR' = "idle"
  /\ UNCHANGED <<saVars, histVars, pcA, sampleA, pendA, pendR, rvVars, xtVars>>

NextThreads ==
  \/ A_Call \/ A_CheckReady \/ A_CopyStore \/ A_ResetIndex \/ A_Write
  \/ R_Call \/ R_Access \/ R_Smooth

SpecThreads == Init /\ [][NextThreads]_vars

(***************************************************************************)
(* SimpleReverb.  Fixed-point arithmetic: a float x is the integer x*One,  *)
(* a product is rescaled and truncated towards zero.                       *)
(***************************************************************************)
\* Op applied to the value of v, the value being computed once.
Bind(v, Op(_)) == CHOOSE y \in {Op(x) : x \in {v}} : TRUE

TruncDiv(a, b) == IF a >= 0 THEN a \div b ELSE -((-a) \div b)
Mul(a, b) == TruncDiv(a * b, One)
Fx(num, den) == (num * One) \div den

numCombs == 8
numAllPasses == 4
numHighFreqDelays == 2
maxHighFreqDelay == 500
combTuning == <<1116, 1188, 1277, 1356, 1422, 1491, 1557, 1617>>
allpassTuning == <<556, 441, 341, 225>>
ConstructionRate == 44100

\* Sample rates handed to setSampleRate.  At 100 Hz the last two allpass
\* lines get length 0; at 200 Hz and 300 Hz every line is non-empty.
SampleRates == {100, 200, 300}

\* Parameters(): the default settings.
DefaultParameters ==
  [ roomSize |-> Fx(1, 2), damping |-> Fx(1, 2), wetLevel |-> Fx(33, 100),
    dryLevel |-> Fx(4, 10), width |-> One, freezeMode |-> 0,
    highFreqDelay |-> Fx(3, 10), crossover |-> Fx(1, 2) ]

\* Parameter structs handed to setParameters.
ParameterSets ==
  { DefaultParameters,
    [DefaultParameters EXCEPT !.freezeMode = One],
    [ roomSize |-> 0, damping |-> 0, wetLevel |-> One, dryLevel |-> 0,
      width |-> 0, freezeMode |-> 0, highFreqDelay |-> One, crossover |-> 0 ],
    [ roomSize |-> Fx(98, 100), damping |-> One, wetLevel |-> Fx(1, 2),
      dryLevel |-> One, width |-> Fx(1, 2), freezeMode |-> 0,
      highFreqDelay |-> 0, crossover |-> One ] }

\* Input samples of the processing calls: silence and a unit impulse.
InputSamples == {0, One}

\* crossoverFreq = 100 * pow(50, crossover); exp(-2*pi*crossoverFreq/Fs),
\* tabulated for the crossover settings and rates above (nearest 1/100).
lowpassCoeffOf(crossover, rate) ==
  LET hund == IF crossover = 0 THEN
                CASE rate = 100 -> 0 [] rate = 200 -> 4 [] rate = 300 -> 12
                  [] OTHER -> 99
              ELSE IF crossover = One THEN
                CASE rate = ConstructionRate -> 49 [] OTHER -> 0
              ELSE
                CASE rate = ConstructionRate -> 90 [] OTHER -> 0
  IN  Fx(hund, 100)

\* The object before the constructor body runs: the member initialisers.
MemberInit ==
  [ parameters |-> DefaultParameters,
    sampleRate |-> ConstructionRate,
    combDelayLines |-> [i \in 1..numCombs |-> <<>>],
    combIndices |-> [i \in 1..numCombs |-> 0],
    feedbackCoeffs |-> [i \in 1..numCombs |-> 0],
    dampCoeffs |-> [i \in 1..numCombs |-> 0],
    previousCombs |-> [i \in 1..numCombs |-> 0],
    allpassDelayLines |-> [i \in 1..numAllPasses |-> <<>>],
    allpassIndices |-> [i \in 1..numAllPasses |-> 0],
    highFreqDelayLines |-> [i \in 1..numHighFreqDelays |-> <<>>],
    highFreqIndices |-> [i \in 1..numHighFreqDelays |-> 0],
    highFreqDelayAmount |-> 0,
    lowpassCoeff |-> 0,
    lowpassState |-> <<0, 0>>,
    highpassState |-> <<0, 0>> ]

updateHighFreqDelay(e) ==
  [e EXCEPT
     !.lowpassCoeff = lowpassCoeffOf(e.parameters.crossover, e.sampleRate),
     !.highFreqDelayAmount = maxHighFreqDelay * e.parameters.highFreqDelay]

setParameters(e, params) ==
  LET roomScale == Fx(28, 100) + Mul(Fx(1, 2), params.roomSize)
      dampScale == Mul(Fx(4, 10), params.damping)
  IN  Bind([e EXCEPT
              !.parameters = params,
              !.feedbackCoeffs = [i \in 1..numCombs |->
                                    TruncDiv(roomScale * combTuning[i], 100)],
              !.dampCoeffs = [i \in 1..numCombs |-> dampScale]],
           LAMBDA x : updateHighFreqDelay(x))

\* std::vector::resize(n, 0.0f): the first elements are kept, new ones are 0.
Resize(line, n) == [i \in 1..n |-> IF i <= Len(line) THEN line[i] ELSE 0]

\* static_cast<int>(tuning * (sampleRate / 44100.0f))
DelaySize(tuning, rate) == (tuning * rate) \div 44100

\* setSampleRate without its updateHighFreqDelay() call.
setSampleRateNoUpdate(e, rate) ==
  [e EXCEPT
     !.sampleRate = rate,
     !.combDelayLines = [i \in 1..numCombs |->
         Resize(e.combDelayLines[i], DelaySize(combTuning[i], rate))],
     !.combIndices = [i \in 1..numCombs |-> 0],
     !.allpassDelayLines = [i \in 1..numAllPasses |->
         Resize(e.allpassDelayLines[i], DelaySize(allpassTuning[i], rate))],
     !.allpassIndices = [i \in 1..numAllPasses |-> 0],
     !.highFreqDelayLines = [i \in 1..numHighFreqDelays |->
         Resize(e.highFreqDelayLines[i], DelaySize(maxHighFreqDelay, rate))],
     !.highFreqIndices = [i \in 1..numHighFreqDelays |-> 0],
     !.lowpassState = <<0, 0>>,
     !.highpassState = <<0, 0>>]

setSampleRate(e, rate) ==
  Bind([e EXCEPT
          !.sampleRate = rate,
          !.combDelayLines = [i \in 1..numCombs |->
              Resize(e.combDelayLines[i], DelaySize(combTuning[i], rate))],
          !.combIndices = [i \in 1..numCombs |-> 0],
          !.allpassDelayLines = [i \in 1..numAllPasses |->
              Resize(e.allpassDelayLines[i], DelaySize(allpassTuning[i], rate))],
          !.allpassIndices = [i \in 1..numAllPasses |-> 0],
          !.highFreqDelayLines = [i \in 1..numHighFreqDelays |->
              Resize(e.highFreqDelayLines[i], DelaySize(maxHighFreqDelay, rate))],
          !.highFreqIndices = [i \in 1..numHighFreqDelays |-> 0]],
       LAMBDA x : [updateHighFreqDelay(x) EXCEPT
                     !.lowpassState = <<0, 0>>,
                     !.highpassState = <<0, 0>>])

reset(e) ==
  [e EXCEPT
     !.combDelayLines = [i \in 1..numCombs |-> Zeros(Len(e.combDelayLines[i]))],
     !.allpassDelayLines = [i \in 1..numAllPasses |->
                              Zeros(Len(e.allpassDelayLines[i]))],
     !.highFreqDelayLines = [i \in 1..numHighFreqDelays |->
                               Zeros(Len(e.highFreqDelayLines[i]))],
     !.lowpassState = <<0, 0>>,
     !.highpassState = <<0, 0>>]

\* SimpleReverb(): setParameters(Parameters()); setSampleRate(44100.0f); reset()
ConstructedDirty ==
  Bind(setParameters(MemberInit, DefaultParameters), LAMBDA a :
    Bind(setSampleRate(a, ConstructionRate), LAMBDA b :
      [reset(b) EXCEPT !.previousCombs = [i \in 1..numCombs |-> One]]))

Constructed ==
  Bind(setParameters(MemberInit, DefaultParameters), LAMBDA a :
    Bind(setSampleRate(a, ConstructionRate), LAMBDA b : reset(b)))

\* processComb(index, input); index is 1-based here, cursors are 0-based.
processComb(e, index, input) ==
  LET cur      == e.combIndices[index]
      output   == e.combDelayLines[index][cur + 1]
      damp     == e.dampCoeffs[index]
      feedback == Mul(output, One - damp) + Mul(e.previousCombs[index], damp)
      slot     == input + Mul(Mul(feedback, e.feedbackCoeffs[index]),
                              One - e.parameters.freezeMode)
  IN  [ e |-> [e EXCEPT
                 !.previousCombs[index] = feedback,
                 !.combDelayLines[index][cur + 1] = slot,
                 !.combIndices[index] = (cur + 1) % Len(e.combDelayLines[index])],
        out |-> output ]

\* processAllpass with the cursor advanced but never wrapped.
processAllpassNoWrap(e, index, input) ==
  LET cur    == e.allpassIndices[index]
      output == (-input) + e.allpassDelayLines[index][cur + 1]
      slot   == input + Mul(output, Fx(1, 2))
  IN  [ e |-> [e EXCEPT
                 !.allpassDelayLines[index][cur + 1] = slot,
                 !.allpassIndices[index] = cur + 1],
        out |-> output ]

processAllpass(e, index, input) ==
  LET cur    == e.allpassIndices[index]
      output == (-input) + e.allpassDelayLines[index][cur + 1]
      slot   == input + Mul(output, Fx(1, 2))
  IN  [ e |-> [e EXCEPT
                 !.allpassDelayLines[index][cur + 1] = slot,
                 !.allpassIndices[index] =
                     (cur + 1) % Len(e.allpassDelayLines[index])],
        out |-> output ]

\* splitFrequencies(input, lowOut, highOut, channel); channel is 1-based here.
splitFrequencies(e, input, channel) ==
  LET lowOut == Mul(One - e.lowpassCoeff, input)
                + Mul(e.lowpassCoeff, e.lowpassState[channel])
  IN  [ e |-> [e EXCEPT !.lowpassState[channel] = lowOut],
        low |-> lowOut,
        high |-> input - lowOut ]

\* x % n where x, an int expression, has been converted to a 64-bit size_t.
TwoTo64Mod(n) ==
  LET a == 65536 % n
      b == (a * a) % n
  IN  (b * b) % n
UMod(x, n) == IF x >= 0 THEN x % n ELSE ((x % n) + TwoTo64Mod(n)) % n

\* int readIndex = (highFreqIndices[channel] - delayLength + size()) % size()
HighFreqReadIndex(e, channel) ==
  LET size        == Len(e.highFreqDelayLines[channel])
      delayLength == TruncDiv(e.highFreqDelayAmount, One)
  IN  UMod(e.highFreqIndices[channel] - delayLength + size, size)

processHighFreqDelay(e, input, channel) ==
  LET cur         == e.highFreqIndices[channel]
      size        == Len(e.highFreqDelayLines[channel])
      written     == [e.highFreqDelayLines[channel] EXCEPT ![cur + 1] = input]
      readIndex   == HighFreqReadIndex(e, channel)
  IN  [ e |-> [e EXCEPT
                 !.highFreqDelayLines[channel] = written,
                 !.highFreqIndices[channel] = (cur + 1) % size],
        out |-> written[readIndex + 1] ]

\* The comb loop of processMono: every comb in turn on the same input.
RECURSIVE CombBank(_, _, _, _)
CombBank(e, j, input, acc) ==
  IF j > numCombs THEN [e |-> e, out |-> acc]
  ELSE Bind(processComb(e, j, input),
            LAMBDA r : CombBank(r.e, j + 1, input, acc + r.out))

\* The allpass loop of processMono: the filters in series.
RECURSIVE AllpassChain(_, _, _)
AllpassChain(e, j, x) ==
  IF j > numAllPasses THEN [e |-> e, out |-> x]
  ELSE Bind(processAllpass(e, j, x),
            LAMBDA r : AllpassChain(r.e, j + 1, r.out))

\* One iteration of the loop of processMono.
MonoSample(e, input) ==
  Bind(splitFrequencies(e, input, 1), LAMBDA sp :
    Bind(CombBank(sp.e, 1, sp.low, 0), LAMBDA low :
      Bind(processHighFreqDelay(low.e, sp.high, 1), LAMBDA hf :
        Bind(CombBank(hf.e, 1, hf.out, 0), LAMBDA high :
          Bind(AllpassChain(high.e, 1, low.out + high.out), LAMBDA ap :
            [ e |-> ap.e,
              out |-> Mul(e.parameters.dryLevel, input)
                      + Mul(e.parameters.wetLevel, ap.out) ])))))

RECURSIVE processMonoFrom(_, _, _)
processMonoFrom(e, buffer, i) ==
  IF i > Len(buffer) THEN [e |-> e, buffer |-> buffer]
  ELSE Bind(MonoSample(e, buffer[i]),
            LAMBDA r : processMonoFrom(r.e, [buffer EXCEPT ![i] = r.out], i + 1))

processMono(e, buffer) == processMonoFrom(e, buffer, 1)

\* The comb loop of processStereo: first half of the combs for the left
\* channel, second half for the right, each comb run on the low band and
\* then on the delayed high band.
RECURSIVE StereoCombs(_, _, _, _)
StereoCombs(e, j, in, acc) ==
  IF j > numCombs \div 2 THEN [e |-> e, acc |-> acc]
  ELSE Bind(processComb(e, j, in.lowL), LAMBDA r1 :
         Bind(processComb(r1.e, j + numCombs \div 2, in.lowR), LAMBDA r2 :
           Bind(processComb(r2.e, j, in.highL), LAMBDA r3 :
             Bind(processComb(r3.e, j + numCombs \div 2, in.highR), LAMBDA r4 :
               Bind([ lowL |-> acc.lowL + r1.out, lowR |-> acc.lowR + r2.out,
                      highL |-> acc.highL + r3.out, highR |-> acc.highR + r4.out ],
                    LAMBDA sum : StereoCombs(r4.e, j + 1, in, sum))))))

\* The allpass loop of processStereo: both channels through the one chain.
RECURSIVE StereoAllpass(_, _, _, _)
StereoAllpass(e, j, l, r) ==
  IF j > numAllPasses THEN [e |-> e, l |-> l, r |-> r]
  ELSE Bind(processAllpass(e, j, l), LAMBDA a :
         Bind(processAllpass(a.e, j, r), LAMBDA b :
           StereoAllpass(b.e, j + 1, a.out, b.out)))

\* The stereo width lines of processStereo.
StereoWidth(allpassOutL, allpassOutR, spread) ==
  [ wetL |-> allpassOutL + Mul(allpassOutR - allpassOutL, One - spread),
    wetR |-> allpassOutR + Mul(allpassOutL - allpassOutR, One - spread) ]

\* One iteration of the loop of processStereo.
StereoSample(e, inputL, inputR) ==
  LET spread    == e.parameters.width
      monoInput == Mul(inputL + inputR, Fx(1, 2))
  IN
  Bind(splitFrequencies(e, monoInput, 1), LAMBDA spL :
    Bind(splitFrequencies(spL.e, monoInput, 2), LAMBDA spR :
      Bind(processHighFreqDelay(spR.e, spL.high, 1), LAMBDA hfL :
        Bind(processHighFreqDelay(hfL.e, spR.high, 2), LAMBDA hfR :
          Bind(StereoCombs(hfR.e, 1,
                 [lowL |-> spL.low, lowR |-> spR.low,
                  highL |-> hfL.out, highR |-> hfR.out],
                 [lowL |-> 0, lowR |-> 0, highL |-> 0, highR |-> 0]), LAMBDA cb :
            Bind(StereoAllpass(cb.e, 1, cb.acc.lowL + cb.acc.highL,
                                        cb.acc.lowR + cb.acc.highR), LAMBDA ap :
              Bind(StereoWidth(ap.l, ap.r, spread), LAMBDA wet :
                [ e |-> ap.e,
                  outL |-> Mul(e.parameters.dryLevel, inputL)
                           + Mul(e.parameters.wetLevel, wet.wetL),
                  outR |-> Mul(e.parameters.dryLevel, inputR)
                           + Mul(e.parameters.wetLevel, wet.wetR),
                  tap |-> [valid |-> TRUE, spread |-> spread,
                           allpassOutL |-> ap.l, allpassOutR |-> ap.r,
                           wetL |-> wet.wetL, wetR |-> wet.wetR] ])))))))

RECURSIVE processStereoFrom(_, _, _, _, _)
processStereoFrom(e, left, right, i, tap) ==
  IF i > Len(left) THEN [e |-> e, left |-> left, right |-> right, tap |-> tap]
  ELSE Bind(StereoSample(e, left[i], right[i]),
            LAMBDA r : processStereoFrom(r.e, [left EXCEPT ![i] = r.outL],
                                         [right EXCEPT ![i] = r.outR], i + 1,
                                         r.tap))

processStereo(e, left, right) == processStereoFrom(e, left, right, 1, NoTap)

(***************************************************************************)
(* The calls of the engine's API.                                          *)
(***************************************************************************)
Blocks == UNION { [1..n -> InputSamples] : n \in 0..MaxBlock }
AllZero(f) == \A i \in DOMAIN f : f[i] = 0

\* Every index the processing loop uses lies inside its delay line.  The
\* code has no such test: it indexes element 0 and computes % size() of each
\* line whatever its length.
LinesNonEmpty(e) ==
  /\ \A i \in 1..numCombs : Len(e.combDelayLines[i]) > 0
  /\ \A i \in 1..numAllPasses : Len(e.allpassDelayLines[i]) > 0
  /\ \A i \in 1..numHighFreqDelays : Len(e.highFreqDelayLines[i]) > 0

\* What a call that indexes an empty line and divides by its length can
\* lead to: the process is killed, or the call returns with arbitrary
\* samples in the buffers.
FaultOutcomes == {"crashed", "garbage"}

\* The engine as its owner leaves it before the first block: constructed,
\* then given the stream's sample rate.
RVInit ==
  /\ \E c \in {Constructed} : \E rate \in SampleRates :
       reverb = setSampleRate(c, rate)
  /\ leftBuffer = <<>>
  /\ rightBuffer = <<>>
  /\ fault = "none"
  /\ lastCall = "SimpleReverb"
  /\ nCalls = 0
  /\ silent = TRUE
  /\ frozenEnergy = FALSE
  /\ stereoTap = NoTap

CanCall(limit) == fault = "none" /\ nCalls < limit

SetParameters ==
  /\ CanCall(MaxCalls)
  /\ \E params \in ParameterSets :
       /\ reverb' = setParameters(reverb, params)
       /\ frozenEnergy' = (frozenEnergy /\ params.freezeMode = One)
  /\ lastCall' = "setParameters"
  /\ nCalls' = nCalls + 1
  /\ UNCHANGED <<leftBuffer, rightBuffer, fault, silent, stereoTap, spVars, xtVars>>

SetSampleRate ==
  /\ CanCall(MaxCalls)
  /\ \E rate \in SampleRates : reverb' = setSampleRate(reverb, rate)
  /\ frozenEnergy' = FALSE
  /\ lastCall' = "setSampleRate"
  /\ nCalls' = nCalls + 1
  /\ UNCHANGED <<leftBuffer, rightBuffer, fault, silent, stereoTap, spVars, xtVars>>

CallReset(limit) ==
  /\ CanCall(limit)
  /\ reverb' = reset(reverb)
  /\ frozenEnergy' = FALSE
  /\ lastCall' = "reset"
  /\ nCalls' = nCalls + 1
  /\ UNCHANGED <<leftBuffer, rightBuffer, fault, silent, stereoTap, spVars, xtVars>>

Energy(buffer) ==
  frozenEnergy \/ (reverb.parameters.freezeMode = One /\ ~AllZero(buffer))

CallProcessMono(limit) ==
  /\ CanCall(limit)
  /\ \E buffer \in Blocks :
       /\ silent' = (silent /\ AllZero(buffer))
       /\ IF Len(buffer) = 0 \/ LinesNonEmpty(reverb)
            THEN \E r \in {processMono(reverb, buffer)} :
                     /\ reverb' = r.e
                     /\ leftBuffer' = r.buffer
                     /\ fault' = "none"
                     /\ frozenEnergy' = Energy(buffer)
            ELSE /\ fault' \in FaultOutcomes
                 /\ leftBuffer' \in [1..Len(buffer) -> InputSamples]
                 /\ UNCHANGED <<reverb, frozenEnergy>>
  /\ lastCall' = "processMono"
  /\ nCalls' = nCalls + 1
  /\ UNCHANGED <<rightBuffer, stereoTap, spVars, xtVars>>

CallProcessStereo(limit) ==
  /\ CanCall(limit)
  /\ \E left \in Blocks :
       \E right \in [1..Len(left) -> InputSamples] :
         /\ silent' = (silent /\ AllZero(left) /\ AllZero(right))
         /\ IF Len(left) = 0 \/ LinesNonEmpty(reverb)
              THEN \E r \in {processStereo(reverb, left, right)} :
                       /\ reverb' = r.e
                       /\ leftBuffer' = r.left
                       /\ rightBuffer' = r.right
                       /\ stereoTap' = IF r.tap.valid THEN r.tap ELSE stereoTap
                       /\ fault' = "none"
                       /\ frozenEnergy' =
                            Energy([i \in 1..Len(left) |->
                                      Mul(left[i] + right[i], Fx(1, 2))])
              ELSE /\ fault' \in FaultOutcomes
                   /\ leftBuffer' \in [1..Len(left) -> InputSamples]
                   /\ rightBuffer' \in [1..Len(left) -> InputSamples]
                   /\ UNCHANGED <<reverb, frozenEnergy, stereoTap>>
  /\ lastCall' = "processStereo"
  /\ nCalls' = nCalls + 1
  /\ UNCHANGED <<spVars, xtVars>>

Reset == CallReset(MaxCalls)
ProcessMono == CallProcessMono(MaxCalls)
ProcessStereo == CallProcessStereo(MaxCalls)

NextReverb ==
  \/ SetParameters \/ SetSampleRate \/ Reset \/ ProcessMono \/ ProcessStereo

InitReverb == SAInit /\ HistInit /\ ThreadsIdle /\ RVInit /\ XtIdle

SpecReverb == InitReverb /\ [][NextReverb]_vars

\* A configured engine that is fed one block after the other.
TailInit ==
  /\ \E c \in {Constructed} : \E rate \in SampleRates :
       \E params \in ParameterSets : \E x \in {setSampleRate(c, rate)} :
         reverb = setParameters(x, params)
  /\ leftBuffer = <<>>
  /\ rightBuffer = <<>>
  /\ fault = "none"
  /\ lastCall = "setParameters"
  /\ nCalls = 0
  /\ silent = TRUE
  /\ frozenEnergy = FALSE
  /\ stereoTap = NoTap

TailMono == CallProcessMono(MaxTail)
TailStereo == CallProcessStereo(MaxTail)

NextTail == TailMono \/ TailStereo

InitTail == SAInit /\ HistInit /\ ThreadsIdle /\ TailInit /\ XtIdle

SpecTail == InitTail /\ [][NextTail]_vars

\* A configured engine that is fed mono blocks and reset in between.
RestartMono == CallProcessMono(MaxRestartCalls)
RestartReset == CallReset(MaxRestartCalls)

NextRestart == RestartMono \/ RestartReset

InitRestart == SAInit /\ HistInit /\ ThreadsIdle /\ TailInit /\ XtIdle

SpecRestart == InitRestart /\ [][NextRestart]_vars

(***************************************************************************)
(* The high-frequency delay of a constructed engine (44.1 kHz), driven one *)
(* processHighFreqDelay call at a time.                                    *)
(***************************************************************************)
\* highFreqDelay settings: no delay, a short delay, the maximum.
HighFreqDelaySettings == {0, Fx(1, 100), One}

HFInit ==
  /\ \E h \in HighFreqDelaySettings :
       reverb = setParameters(Constructed,
                              [DefaultParameters EXCEPT !.highFreqDelay = h])
  /\ leftBuffer = <<>>
  /\ rightBuffer = <<>>
  /\ fault = "none"
  /\ lastCall = "setParameters"
  /\ nCalls = 0
  /\ silent = TRUE
  /\ frozenEnergy = FALSE
  /\ stereoTap = NoTap

ProcessHighFreqDelay ==
  /\ nCalls < MaxHFCalls
  /\ \E channel \in 1..numHighFreqDelays : \E input \in InputSamples :
       \E r \in {processHighFreqDelay(reverb, input, channel)} :
         /\ reverb' = r.e
         /\ hfOut' = r.out
         /\ hfChannel' = channel
         /\ hfIn' = [hfIn EXCEPT ![channel] = Append(@, input)]
  /\ lastCall' = "processHighFreqDelay"
  /\ nCalls' = nCalls + 1
  /\ UNCHANGED <<leftBuffer, rightBuffer, fault, silent, frozenEnergy, stereoTap,
                 spVars, restHF>>

HFReset ==
  /\ nCalls < MaxHFCalls
  /\ lastCall = "processHighFreqDelay"
  /\ reverb' = reset(reverb)
  /\ hfIn' = <<<<>>, <<>>>>
  /\ hfOut' = 0
  /\ hfChannel' = 0
  /\ lastCall' = "reset"
  /\ nCalls' = nCalls + 1
  /\ UNCHANGED <<leftBuffer, rightBuffer, fault, silent, frozenEnergy, stereoTap,
                 spVars, restHF>>

NextHighFreq == ProcessHighFreqDelay \/ HFReset

InitHighFreq == SAInit /\ HistInit /\ ThreadsIdle /\ XtIdle /\ HFInit

SpecHighFreq == InitHighFreq /\ [][NextHighFreq]_vars

(***************************************************************************)
(* harmonic_detuning.cpp: processHarmonicDetuning(left, right, params).    *)
(* Buffer channels and slots are 1-based here, positions 0-based.          *)
(***************************************************************************)
\* int oddOffset = min(1 + int(amount * 10.0f), HARMONIC_BUFFER_SIZE - 1)
OddOffset(amount) ==
  LET o == 1 + TruncDiv(amount * 10, One)
  IN  IF o < HARMONIC_BUFFER_SIZE - 1 THEN o ELSE HARMONIC_BUFFER_SIZE - 1
EvenOffset(amount) ==
  LET o == 1 + TruncDiv(amount * 8, One)
  IN  IF o < HARMONIC_BUFFER_SIZE - 1 THEN o ELSE HARMONIC_BUFFER_SIZE - 1

\* params.amount <= 0.001f
DetuneDisabled(params) == params.amount * 1000 <= One

\* The slots the call reads back: odd buffer of the left channel, even
\* buffer of the right channel.
OddReadPos(st, params) ==
  (st.oddHarmonicFilter[1] + OddOffset(params.amount)) % HARMONIC_BUFFER_SIZE
EvenReadPos(st, params) ==
  (st.evenHarmonicFilter[2] + EvenOffset(params.amount)) % HARMONIC_BUFFER_SIZE

processHarmonicDetuning(st, leftSample, rightSample, params) ==
  IF DetuneDisabled(params)
    THEN [st |-> st, left |-> leftSample, right |-> rightSample]
    ELSE
      LET odd  == [st.oddHarmonicBuffer EXCEPT
                     ![1][st.oddHarmonicFilter[1] + 1] = leftSample,
                     ![2][st.oddHarmonicFilter[2] + 1] = rightSample]
          even == [st.evenHarmonicBuffer EXCEPT
                     ![1][st.evenHarmonicFilter[1] + 1] = leftSample,
                     ![2][st.evenHarmonicFilter[2] + 1] = rightSample]
          detunedLeftOdd   == odd[1][OddReadPos(st, params) + 1]
          detunedRightEven == even[2][EvenReadPos(st, params) + 1]
          wetMix == params.mix
          dryMix == One - wetMix
      IN  [ st |-> [ oddHarmonicBuffer |-> odd,
                     evenHarmonicBuffer |-> even,
                     oddHarmonicFilter |->
                       [c \in 1..2 |-> (st.oddHarmonicFilter[c] + 1) % HARMONIC_BUFFER_SIZE],
                     evenHarmonicFilter |->
                       [c \in 1..2 |-> (st.evenHarmonicFilter[c] + 1) % HARMONIC_BUFFER_SIZE] ],
            left |-> Mul(leftSample, dryMix) + Mul(detunedLeftOdd, wetMix),
            right |-> Mul(rightSample, dryMix) + Mul(detunedRightEven, wetMix) ]

\* The parameters of the calls: detuning disabled, half, full; two mixes.
DetuneAmounts == {0, Fx(1, 2), One}
DetuneMixes == {Fx(1, 2), One}

DTInit ==
  /\ detune = DetuneInit
  /\ dtParams \in [amount : DetuneAmounts, mix : DetuneMixes]
  /\ dtStamp = [odd |-> Zeros(HARMONIC_BUFFER_SIZE), even |-> Zeros(HARMONIC_BUFFER_SIZE)]
  /\ dtRead = [odd |-> 0, even |-> 0]
  /\ dtOut = <<0, 0>>
  /\ dtCalls = 0
  /\ dtLoud = 0

ProcessHarmonicDetuning ==
  /\ dtCalls < MaxDetuneCalls
  /\ \E leftSample, rightSample \in InputSamples :
       LET loud == leftSample # 0 \/ rightSample # 0
       IN  /\ loud => dtLoud < MaxLoud
           /\ dtLoud' = IF loud THEN dtLoud + 1 ELSE dtLoud
           /\ \E r \in {processHarmonicDetuning(detune, leftSample, rightSample,
                                                dtParams)} :
                /\ detune' = r.st
                /\ dtOut' = <<r.left, r.right>>
  /\ \E w \in {IF DetuneDisabled(dtParams) THEN dtStamp
               ELSE [ odd  |-> [dtStamp.odd EXCEPT
                                  ![detune.oddHarmonicFilter[1] + 1] = dtCalls + 1],
                      even |-> [dtStamp.even EXCEPT
                                  ![detune.evenHarmonicFilter[2] + 1] = dtCalls + 1] ]} :
       /\ dtStamp' = w
       /\ dtRead' = IF DetuneDisabled(dtParams) THEN dtRead
                    ELSE [ odd  |-> w.odd[OddReadPos(detune, dtParams) + 1],
                           even |-> w.even[EvenReadPos(detune, dtParams) + 1] ]
  /\ dtCalls' = dtCalls + 1
  /\ UNCHANGED <<dtParams, spVars, rvVars, restDT>>

NextDetune == ProcessHarmonicDetuning

InitDetune == SAInit /\ HistInit /\ ThreadsIdle /\ NoEngine /\ HFIdle /\ FSIdle /\ CCIdle /\ APIdle /\ AMIdle /\ CMIdle /\ PFIdle /\ UAIdle /\ SHIdle /\ ANIdle /\ PLIdle /\ DTInit

SpecDetune == InitDetune /\ [][NextDetune]_vars

(***************************************************************************)
(* splitFrequencies in binary floating point.  A float is an integer       *)
(* number of units of 2^-FracBits whose magnitude is m * 2^e with          *)
(* m < 2^Precision; every operation rounds its exact result to the nearest *)
(* float, ties to the even significand (IEEE 754 default rounding).        *)
(***************************************************************************)
FloatOne == 2^FracBits

Abs(x) == IF x < 0 THEN -x ELSE x

\* The spacing of the floats at magnitude num/den: the least power of two
\* q (from q on) with num/den < 2^Precision * q.
RECURSIVE QuantumFrom(_, _, _)
QuantumFrom(num, den, q) ==
  IF num < (2^Precision) * q * den THEN q ELSE QuantumFrom(num, den, 2 * q)

\* num/den (den > 0) rounded to the nearest float, ties to even.
RoundRat(num, den) ==
  LET a   == Abs(num)
      q   == QuantumFrom(a, den, 1)
      d   == q * den
      f   == a \div d
      rem == a - f * d
      m   == IF 2 * rem > d \/ (2 * rem = d /\ f % 2 = 1) THEN f + 1 ELSE f
  IN  IF num < 0 THEN -(m * q) ELSE m * q

FAdd(a, b) == RoundRat(a + b, 1)
FSub(a, b) == RoundRat(a - b, 1)
FMul(a, b) == RoundRat(a * b, FloatOne)

\* The floats of magnitude at most 1.0f.
FloatSamples == {v \in (-FloatOne)..FloatOne : RoundRat(v, 1) = v}

\* lowpassCoeff = exp(-2*pi*crossoverFreq/sampleRate) lies in (0, 1):
\* 0.25, 0.5 and 0.875 (0.904 at the default settings).
FloatCoeffs == {FloatOne \div 4, FloatOne \div 2, (7 * FloatOne) \div 8}

\* splitFrequencies with the high band taken against the old filter state.
splitFrequenciesStale(coeff, state, input) ==
  LET lowOut == FAdd(FMul(FSub(FloatOne, coeff), input), FMul(coeff, state))
  IN  [ low |-> lowOut, state |-> lowOut, high |-> FSub(input, state) ]

\* splitFrequencies(input, lowOut, highOut, channel) on lowpassState[channel].
splitFrequenciesFloat(coeff, state, input) ==
  LET lowOut == FAdd(FMul(FSub(FloatOne, coeff), input), FMul(coeff, state))
  IN  [ low |-> lowOut, state |-> lowOut, high |-> FSub(input, lowOut) ]

FSInit ==
  /\ fsCoeff \in FloatCoeffs
  /\ fsState = <<0, 0>>
  /\ fsBefore = 0
  /\ fsIn = 0
  /\ fsOut = [low |-> 0, high |-> 0]
  /\ fsChannel = 0
  /\ fsCalls = 0

SplitFrequencies ==
  /\ fsCalls < MaxSplitCalls
  /\ \E channel \in 1..2 : \E input \in FloatSamples :
       \E r \in {splitFrequenciesFloat(fsCoeff, fsState[channel], input)} :
         /\ fsState' = [fsState EXCEPT ![channel] = r.state]
         /\ fsBefore' = fsState[channel]
         /\ fsIn' = input
         /\ fsOut' = [low |-> r.low, high |-> r.high]
         /\ fsChannel' = channel
  /\ fsCalls' = fsCalls + 1
  /\ UNCHANGED <<fsCoeff, spVars, rvVars, restFS>>

NextSplit == SplitFrequencies

InitSplit == SAInit /\ HistInit /\ ThreadsIdle /\ NoEngine /\ HFIdle /\ DTIdle /\ CCIdle /\ APIdle /\ AMIdle /\ CMIdle /\ PFIdle /\ UAIdle /\ SHIdle /\ ANIdle /\ PLIdle /\ FSInit

SpecSplit == InitSplit /\ [][NextSplit]_vars

(***************************************************************************)
(* setParameters on a control thread while processStereo runs on the audio *)
(* thread.  The engine has no lock and no atomic field; the steps below    *)
(* are the statements of setParameters and the iterations of the sample    *)
(* loop, interleaved in any order.                                         *)
(***************************************************************************)
\* What one iteration of the sample loop reads of the configuration.
View(e) ==
  [ parameters |-> e.parameters,
    feedbackCoeffs |-> e.feedbackCoeffs,
    dampCoeffs |-> e.dampCoeffs,
    lowpassCoeff |-> e.lowpassCoeff,
    highFreqDelayAmount |-> e.highFreqDelayAmount ]

CCInit ==
  /\ \E c \in {Constructed} : \E rate \in SampleRates :
       \E x \in {setSampleRate(c, rate)} :
         reverb = x /\ LinesNonEmpty(x)
  /\ leftBuffer = <<>>
  /\ rightBuffer = <<>>
  /\ fault = "none"
  /\ lastCall = "setSampleRate"
  /\ nCalls = 0
  /\ silent = TRUE
  /\ frozenEnergy = FALSE
  /\ stereoTap = NoTap

\* control thread: setParameters(params) is called
Ctl_Call ==
  /\ ctlPc = "idle"
  /\ ctlCalls < MaxSets
  /\ \E params \in ParameterSets : ctlParams' = params
  /\ ctlPc' = "parameters"
  /\ ctlCalls' = ctlCalls + 1
  /\ UNCHANGED <<audPos, audSpread, audSeen, audBatches, rvVars, spVars, restCC>>

\* parameters = params;
Ctl_StoreParameters ==
  /\ ctlPc = "parameters"
  /\ reverb' = [reverb EXCEPT !.parameters = ctlParams]
  /\ ctlPc' = "coeffs"
  /\ UNCHANGED <<ctlParams, ctlCalls, audPos, audSpread, audSeen, audBatches,
                 leftBuffer, rightBuffer, fault, lastCall, nCalls, silent,
                 frozenEnergy, stereoTap, spVars, restCC>>

\* the loop storing feedbackCoeffs[i] and dampCoeffs[i]
Ctl_StoreCoeffs ==
  /\ ctlPc = "coeffs"
  /\ \E x \in {setParameters(reverb, reverb.parameters)} :
       reverb' = [reverb EXCEPT !.feedbackCoeffs = x.feedbackCoeffs,
                                !.dampCoeffs = x.dampCoeffs]
  /\ ctlPc' = "updateHighFreqDelay"
  /\ UNCHANGED <<ctlParams, ctlCalls, audPos, audSpread, audSeen, audBatches,
                 leftBuffer, rightBuffer, fault, lastCall, nCalls, silent,
                 frozenEnergy, stereoTap, spVars, restCC>>

\* updateHighFreqDelay(); return
Ctl_UpdateHighFreqDelay ==
  /\ ctlPc = "updateHighFreqDelay"
  /\ reverb' = updateHighFreqDelay(reverb)
  /\ ctlPc' = "idle"
  /\ UNCHANGED <<ctlParams, ctlCalls, audPos, audSpread, audSeen, audBatches,
                 leftBuffer, rightBuffer, fault, lastCall, nCalls, silent,
                 frozenEnergy, stereoTap, spVars, restCC>>

\* audio thread: processStereo(left, right, BatchLen) is called;
\* const float spread = parameters.width
Aud_Call ==
  /\ audPos = 0
  /\ audBatches < MaxBatches
  /\ leftBuffer' \in [1..BatchLen -> InputSamples]
  /\ rightBuffer' \in [1..BatchLen -> InputSamples]
  /\ audSpread' = reverb.parameters.width
  /\ audSeen' = {}
  /\ audPos' = 1
  /\ audBatches' = audBatches + 1
  /\ lastCall' = "processStereo"
  /\ UNCHANGED <<ctlPc, ctlParams, ctlCalls, reverb, fault, nCalls, silent,
                 frozenEnergy, stereoTap, spVars, restCC>>

\* one iteration of the sample loop, with the fields as they are now
Aud_Sample ==
  /\ audPos > 0
  /\ \E r \in {StereoSample([reverb EXCEPT !.parameters.width = audSpread],
                            leftBuffer[audPos], rightBuffer[audPos])} :
       /\ reverb' = [r.e EXCEPT !.parameters.width = reverb.parameters.width]
       /\ leftBuffer' = [leftBuffer EXCEPT ![audPos] = r.outL]
       /\ rightBuffer' = [rightBuffer EXCEPT ![audPos] = r.outR]
       /\ stereoTap' = r.tap
  /\ audSeen' = audSeen \cup {View(reverb)}
  /\ audPos' = IF audPos = BatchLen THEN 0 ELSE audPos + 1
  /\ UNCHANGED <<ctlPc, ctlParams, ctlCalls, audSpread, audBatches, fault,
                 lastCall, nCalls, silent, frozenEnergy, spVars, restCC>>

NextParams ==
  \/ Ctl_Call \/ Ctl_StoreParameters \/ Ctl_StoreCoeffs \/ Ctl_UpdateHighFreqDelay
  \/ Aud_Call \/ Aud_Sample

InitParams ==
  SAInit /\ HistInit /\ ThreadsIdle /\ HFIdle /\ DTIdle /\ FSIdle /\ CCIdle /\ APIdle /\ AMIdle /\ CMIdle /\ PFIdle /\ UAIdle /\ SHIdle /\ ANIdle /\ PLIdle /\ CCInit

SpecParams == InitParams /\ [][NextParams]_vars

(***************************************************************************)
(* SimpleAudioProcessor: the parameter interface around the engine.        *)
(***************************************************************************)
\* SimpleAudioProcessor(): the members are default-constructed, then
\* reverb.setParameters(SimpleReverb::Parameters()).
APInit ==
  /\ reverb = setParameters(Constructed, DefaultParameters)
  /\ apParameters = DefaultParameters
  /\ apLastSet = <<>>
  /\ apGot = <<>>
  /\ apLast = "SimpleAudioProcessor"
  /\ apCalls = 0
  /\ leftBuffer = <<>>
  /\ rightBuffer = <<>>
  /\ fault = "none"
  /\ lastCall = "setParameters"
  /\ nCalls = 0
  /\ silent = TRUE
  /\ frozenEnergy = FALSE
  /\ stereoTap = NoTap

\* void setReverbParameters(const SimpleReverb::Parameters& params)
setReverbParameters(proc, params) ==
  [ reverb |-> setParameters(proc.reverb, params),
    parameters |-> proc.parameters ]

\* SimpleReverb::Parameters getReverbParameters() const
getReverbParameters(proc) == proc.parameters

SetReverbParameters ==
  /\ apCalls < MaxProcessorCalls
  /\ \E params \in ParameterSets :
       \E r \in {setReverbParameters([reverb |-> reverb,
                                      parameters |-> apParameters], params)} :
         /\ reverb' = r.reverb
         /\ apParameters' = r.parameters
         /\ apLastSet' = <<params>>
  /\ apLast' = "setReverbParameters"
  /\ lastCall' = "setParameters"
  /\ apCalls' = apCalls + 1
  /\ UNCHANGED <<apGot, leftBuffer, rightBuffer, fault, nCalls, silent,
                 frozenEnergy, stereoTap, spVars, restAP>>

GetReverbParameters ==
  /\ apCalls < MaxProcessorCalls
  /\ apGot' = <<getReverbParameters([reverb |-> reverb,
                                     parameters |-> apParameters])>>
  /\ apLast' = "getReverbParameters"
  /\ apCalls' = apCalls + 1
  /\ UNCHANGED <<apParameters, apLastSet, rvVars, spVars, restAP>>

\* void setSampleRate(float sampleRate)
ProcessorSetSampleRate ==
  /\ apCalls < MaxProcessorCalls
  /\ \E rate \in SampleRates : reverb' = setSampleRate(reverb, rate)
  /\ apLast' = "setSampleRate"
  /\ lastCall' = "setSampleRate"
  /\ apCalls' = apCalls + 1
  /\ UNCHANGED <<apParameters, apLastSet, apGot, leftBuffer, rightBuffer, fault,
                 nCalls, silent, frozenEnergy, stereoTap, spVars, restAP>>

NextProcessor ==
  SetReverbParameters \/ GetReverbParameters \/ ProcessorSetSampleRate

InitProcessor ==
  SAInit /\ HistInit /\ ThreadsIdle /\ HFIdle /\ DTIdle /\ FSIdle /\ CCIdle /\ AMIdle /\ CMIdle /\ PFIdle /\ UAIdle /\ SHIdle /\ ANIdle /\ PLIdle /\ APInit

SpecProcessor == InitProcessor /\ [][NextProcessor]_vars

(***************************************************************************)
(* SpectrumAnalyzer::setAnimationMode / setColorScheme.                    *)
(***************************************************************************)
\* a % b on C++ ints: the quotient is truncated towards zero, so the
\* remainder has the sign of a.
IntRem(a, b) == a - b * TruncDiv(a, b)

setAnimationMode(mode) == IntRem(mode, 3)
setColorScheme(scheme) == IntRem(scheme, 3)

ModeArgs == (-MaxModeArg)..MaxModeArg

SetAnimationMode ==
  /\ modeCalls < MaxModeCalls
  /\ \E mode \in ModeArgs :
       /\ animationMode' = setAnimationMode(mode)
       /\ modeArg' = <<mode>>
  /\ modeCalls' = modeCalls + 1
  /\ UNCHANGED <<colorScheme, schemeArg, spVars, rvVars, restAM>>

SetColorScheme ==
  /\ modeCalls < MaxModeCalls
  /\ \E scheme \in ModeArgs :
       /\ colorScheme' = setColorScheme(scheme)
       /\ schemeArg' = <<scheme>>
  /\ modeCalls' = modeCalls + 1
  /\ UNCHANGED <<animationMode, modeArg, spVars, rvVars, restAM>>

NextModes == SetAnimationMode \/ SetColorScheme

\* SpectrumAnalyzer(): animationMode = 0; colorScheme = 0
InitModes == SAInit /\ HistInit /\ ThreadsIdle /\ NoEngine /\ XtIdle

SpecModes == InitModes /\ [][NextModes]_vars

(***************************************************************************)
(* FFT::calculateMagnitudeSpectrum(input, output, numSamples): the window  *)
(* and zero-padding loops.  An element of the local fftData is kept as the *)
(* operands of the window formula, input[i] * 0.5 * (1 - cos(2*pi*num/den)) *)
(* being [in, num, den]; the transform and the magnitudes are kept as      *)
(* whether they are finite.                                                *)
(***************************************************************************)
\* std::complex<float>(0.0f, 0.0f)
ZeroBin == [in |-> 0, num |-> 0, den |-> 1]

calculateMagnitudeSpectrum(size, input, numSamples) ==
  LET windowed == {i \in 0..(size - 1) : i < numSamples}
      padded   == numSamples..(size - 1)
      fftFrame == [k \in 1..size |->
                     IF (k - 1) \in windowed
                       THEN [in |-> input[k], num |-> k - 1, den |-> numSamples - 1]
                       ELSE ZeroBin]
      divisors == {numSamples - 1 : i \in windowed}
  IN  [ fftData  |-> fftFrame,
        divisors |-> divisors,
        writes   |-> windowed \cup padded,
        \* the indices of `output` the magnitude loop stores into
        bins     |-> 0..((size \div 2) - 1),
        \* 0.0 / 0 is NaN, and so is everything computed from it
        output   |-> IF 0 \in divisors THEN "nan" ELSE "finite" ]

FFTSizes == {2^order : order \in 1..MaxOrder}

CalculateMagnitudeSpectrum ==
  /\ cmCalls < MaxSpectrumCalls
  /\ \E size \in FFTSizes : \E numSamples \in (-MaxExtra)..(size + MaxExtra) :
       \E input \in [1..numSamples -> InputSamples] :
         \E r \in {calculateMagnitudeSpectrum(size, input, numSamples)} :
           /\ cmSize' = size
           /\ cmNumSamples' = numSamples
           /\ cmFrame' = r.fftData
           /\ cmDivisors' = r.divisors
           /\ cmWrites' = r.writes
           /\ cmOutput' = r.output
           /\ IF r.writes \subseteq 0..(size - 1)
                THEN cmFault' = "none"
                ELSE cmFault' \in FaultOutcomes
  /\ cmCalls' = cmCalls + 1
  /\ UNCHANGED <<spVars, rvVars, restCM>>

NextSpectrum == CalculateMagnitudeSpectrum

InitSpectrum == SAInit /\ HistInit /\ ThreadsIdle /\ NoEngine /\ XtIdle

SpecSpectrum == InitSpectrum /\ [][NextSpectrum]_vars

(***************************************************************************)
(* FFT::FFT(order) and FFT::perform(data), on a 0-based buffer of complex  *)
(* numbers in fixed point.                                                 *)
(***************************************************************************)
\* std::complex<float> and its operators
Cx(re, im) == [re |-> re, im |-> im]
CxAdd(a, b) == Cx(a.re + b.re, a.im + b.im)
CxSub(a, b) == Cx(a.re - b.re, a.im - b.im)
CxMul(a, b) == Cx(Mul(a.re, b.re) - Mul(a.im, b.im),
                  Mul(a.re, b.im) + Mul(a.im, b.re))

\* cos of k/32 of a turn for the first quarter, in 1/10000, and the whole
\* turn by symmetry: enough for the twiddles of every order up to 5.
QuarterCos == <<10000, 9808, 9239, 8315, 7071, 5556, 3827, 1951, 0>>

Cos32(k) ==
  LET q == k % 32
  IN  IF q <= 8 THEN QuarterCos[q + 1]
      ELSE IF q <= 16 THEN -QuarterCos[16 - q + 1]
      ELSE IF q <= 24 THEN -QuarterCos[q - 16 + 1]
      ELSE QuarterCos[32 - q + 1]

Sin32(k) == Cos32(k + 24)

\* The nearest fixed-point value of c/10000.
FxNearest(c) == IF c >= 0 THEN (c * One + 5000) \div 10000
                ELSE -((-c * One + 5000) \div 10000)

\* twiddles[i] = (cos(angle), sin(angle)) with angle = -2*pi*i/size
Twiddles(order) ==
  LET size == 2^order
  IN  [i \in 0..((size \div 2) - 1) |->
         Cx(FxNearest(Cos32((32 * i) \div size)),
            -FxNearest(Sin32((32 * i) \div size)))]

\* int m = size / 2; while (m <= j) { j -= m; m /= 2; } j += m;
RECURSIVE NextReversed(_, _)
NextReversed(j, m) ==
  IF m <= j THEN NextReversed(j - m, m \div 2) ELSE j + m

\* The bit-reversal loop with the swap left out.
BitReversalPassNoSwap(size, data, i, j) == data

\* The bit-reversal loop of perform, from iteration i on.
RECURSIVE BitReversalPass(_, _, _, _)
BitReversalPass(size, data, i, j) ==
  IF i >= size - 1 THEN data
  ELSE Bind(IF i < j THEN [data EXCEPT ![i] = data[j], ![j] = data[i]]
                     ELSE data,
            LAMBDA d :
              Bind(NextReversed(j, size \div 2),
                   LAMBDA nj : BitReversalPass(size, d, i + 1, nj)))

\* One butterfly that stores only its first output.
ButterflyUpperOnly(twiddles, data, k, j, m2, step) ==
  LET t == CxMul(twiddles[j * step], data[k + j + m2])
      u == data[k + j]
  IN  [data EXCEPT ![k + j] = CxAdd(u, t)]

\* The body of the innermost loop of perform.
Butterfly(twiddles, data, k, j, m2, step) ==
  LET t == CxMul(twiddles[j * step], data[k + j + m2])
      u == data[k + j]
  IN  [data EXCEPT ![k + j] = CxAdd(u, t), ![k + j + m2] = CxSub(u, t)]

\* for (int j = 0; j < m2; j++)
RECURSIVE ButterflyLoop(_, _, _, _, _, _)
ButterflyLoop(twiddles, data, k, j, m2, step) ==
  IF j >= m2 THEN data
  ELSE Bind(Butterfly(twiddles, data, k, j, m2, step),
            LAMBDA d : ButterflyLoop(twiddles, d, k, j + 1, m2, step))

\* for (int k = 0; k < size; k += m)
RECURSIVE BlockLoop(_, _, _, _, _)
BlockLoop(twiddles, size, data, k, m) ==
  IF k >= size THEN data
  ELSE Bind(ButterflyLoop(twiddles, data, k, 0, m \div 2, size \div m),
            LAMBDA d : BlockLoop(twiddles, size, d, k + m, m))

\* for (int stage = 1; stage <= order; stage++)
RECURSIVE StageLoop(_, _, _, _, _)
StageLoop(twiddles, order, size, data, stage) ==
  IF stage > order THEN data
  ELSE Bind(BlockLoop(twiddles, size, data, 0, 2^stage),
            LAMBDA d : StageLoop(twiddles, order, size, d, stage + 1))

\* perform(data) on an FFT of the given order: the buffer after the
\* bit-reversal pass and the buffer returned.
perform(order, data) ==
  Bind(BitReversalPass(2^order, data, 0, 0), LAMBDA rev :
    [ reversed |-> rev,
      data |-> StageLoop(Twiddles(order), order, 2^order, rev, 1) ])

\* Real buffers over idx with at most k elements set to One or -One, the
\* others zero.
RECURSIVE SparseBuffers(_, _)
SparseBuffers(idx, k) ==
  IF k = 0
    THEN { [i \in idx |-> Cx(0, 0)] }
    ELSE LET fewer == SparseBuffers(idx, k - 1)
         IN  fewer \cup { [f EXCEPT ![i] = Cx(v, 0)] :
                            f \in fewer, i \in idx, v \in {-One, One} }

\* Real buffers of 2^order elements, at most MaxNonZero of them non-zero.
PerformInputs(order) == SparseBuffers(0..(2^order - 1), MaxNonZero)

PFInit ==
  /\ SAInit /\ HistInit /\ ThreadsIdle /\ NoEngine
  /\ HFIdle /\ DTIdle /\ FSIdle /\ CCIdle /\ APIdle /\ AMIdle /\ CMIdle /\ UAIdle /\ SHIdle /\ ANIdle /\ PLIdle
  /\ pfOrder \in 1..MaxOrder
  /\ pfData \in PerformInputs(pfOrder)
  /\ pfInput = <<>>
  /\ pfReversed = <<>>
  /\ pfCalls = 0

Perform ==
  /\ pfCalls < MaxPerformCalls
  /\ \E r \in {perform(pfOrder, pfData)} :
       /\ pfInput' = pfData
       /\ pfReversed' = r.reversed
       /\ pfData' = r.data
  /\ pfCalls' = pfCalls + 1
  /\ UNCHANGED <<pfOrder, spVars, rvVars, restPF>>

NextFFT == Perform

InitFFT == PFInit

SpecFFT == InitFFT /\ [][NextFFT]_vars

(***************************************************************************)
(* SpectrumAnalyzer::update(): which elements of scopeData it writes and   *)
(* reads.  The constructor builds fft(11), fftSize = 1 << 11 and           *)
(* scopeSize = 512; the model keeps scopeSize = fftSize / 4 at smaller     *)
(* orders.                                                                 *)
(***************************************************************************)
ScopeSizeOf(size) == size \div 4

\* (int)(skewedProportionX * fftSize * 0.5f) with skewedProportionX =
\* 1 - exp(log(1 - i/scopeSize) * 0.2), i.e. 1 - (1 - i/scopeSize)^(1/5):
\* the greatest k with ((half - k)/half)^5 >= (scopeSize - i)/scopeSize,
\* half being fftSize/2 (scopeSize divides half^5, both are powers of two).
\* Where the product is a whole number k > 0 the rounding of exp and log
\* decides between k - 1 and k: roundsDown says which.
SkewedIndex(size, i, roundsDown) ==
  LET half  == size \div 2
      scope == ScopeSizeOf(size)
      bound == (scope - i) * ((half^5) \div scope)
      k     == CHOOSE c \in 0..half :
                 /\ (half - c)^5 >= bound
                 /\ \A d \in (c + 1)..half : (half - d)^5 < bound
  IN  IF k > 0 /\ (half - k)^5 = bound /\ roundsDown THEN k - 1 ELSE k

\* std::min(fftSize / 2, index)
MinInt(a, b) == IF a <= b THEN a ELSE b

\* The accesses of one update() call with a frame pending: the elements of
\* scopeData that calculateMagnitudeSpectrum stores into, and the element
\* read for each display bin.
updateAccesses(size, frame, roundsDown) ==
  [ writes |-> calculateMagnitudeSpectrum(size, frame, size).bins,
    reads  |-> [i \in 1..ScopeSizeOf(size) |->
                  MinInt(size \div 2, SkewedIndex(size, i - 1, roundsDown))] ]

\* Frames of fftSize samples: silence, or one unit sample.
ScopeFrames(size) ==
  { [k \in 1..size |-> IF k = p THEN One ELSE 0] : p \in 0..size }

UAInit ==
  /\ SAInit /\ HistInit /\ ThreadsIdle /\ NoEngine
  /\ HFIdle /\ DTIdle /\ FSIdle /\ CCIdle /\ APIdle /\ AMIdle /\ CMIdle /\ PFIdle /\ SHIdle /\ ANIdle /\ PLIdle
  /\ uaOrder \in 2..MaxScopeOrder
  /\ uaReady \in BOOLEAN
  /\ uaFrame \in ScopeFrames(2^uaOrder)
  /\ uaScopeWrites = {}
  /\ uaScopeReads = <<>>
  /\ uaFault = "none"
  /\ uaCalls = 0

UpdateArrays ==
  /\ uaFault = "none"
  /\ uaCalls < MaxScopeCalls
  /\ IF uaReady
       THEN \E roundsDown \in BOOLEAN :
              \E r \in {updateAccesses(2^uaOrder, uaFrame, roundsDown)} :
                /\ uaScopeWrites' = r.writes
                /\ uaScopeReads' = r.reads
                /\ IF /\ r.writes \subseteq 0..(ScopeSizeOf(2^uaOrder) - 1)
                      /\ \A i \in 1..ScopeSizeOf(2^uaOrder) :
                           r.reads[i] < ScopeSizeOf(2^uaOrder)
                     THEN uaFault' = "none"
                     ELSE uaFault' \in FaultOutcomes
       ELSE /\ uaScopeWrites' = {}
            /\ uaScopeReads' = <<>>
            /\ uaFault' = "none"
  /\ uaReady' = FALSE
  /\ uaCalls' = uaCalls + 1
  /\ UNCHANGED <<uaOrder, uaFrame, spVars, rvVars, restUA>>

NextScope == UpdateArrays

InitScope == UAInit

SpecScope == InitScope /\ [][NextScope]_vars

(***************************************************************************)
(* Two instances side by side.  CustomReverbAudioProcessor::processCrossover *)
(* keeps its filter memory in function-local statics, and                  *)
(* SimpleReverb::processHarmonicDetuning forwards to the free function of  *)
(* harmonic_detuning.cpp, whose buffers are file statics: there is one     *)
(* copy of each for all instances.  Both instances are fed shStream.       *)
(***************************************************************************)
Instances == {1, 2}

\* alpha = 1 - exp(-2*pi*customParams.crossover/sampleRate) for the
\* constructor's crossover of 2000 Hz at 44.1 kHz (nearest 1/100).
CrossoverAlpha == Fx(25, 100)

\* processCrossover(leftIn, rightIn, ...) on the statics lp = <<leftLP, rightLP>>
processCrossover(lp, leftIn, rightIn) ==
  LET leftLP  == lp[1] + Mul(CrossoverAlpha, leftIn - lp[1])
      rightLP == lp[2] + Mul(CrossoverAlpha, rightIn - lp[2])
  IN  [ lp |-> <<leftLP, rightLP>>,
        leftLow |-> leftLP, leftHigh |-> leftIn - leftLP,
        rightLow |-> rightLP, rightHigh |-> rightIn - rightLP ]

\* processHarmonicDetuning(leftSample, rightSample, amount): the default mix
DetuneParams(amount) == [amount |-> amount, mix |-> Fx(1, 2)]

SHInit ==
  /\ SAInit /\ HistInit /\ ThreadsIdle /\ NoEngine
  /\ HFIdle /\ DTIdle /\ FSIdle /\ CCIdle /\ APIdle /\ AMIdle /\ CMIdle /\ PFIdle /\ UAIdle /\ ANIdle /\ PLIdle
  /\ shStream \in [1..MaxSharedCalls -> InputSamples]
  /\ shAmount \in DetuneAmounts
  /\ shLP = <<0, 0>>
  /\ shDetune = DetuneInit
  /\ shWriter = [crossover |-> 0, detune |-> 0]
  /\ shForeign = FALSE
  /\ shXOut = <<<<>>, <<>>>>
  /\ shDOut = <<<<>>, <<>>>>

\* Instance n processes its next sample with processCrossover.
InstProcessCrossover ==
  \E n \in Instances :
    /\ Len(shXOut[n]) < MaxSharedCalls
    /\ \E x \in {shStream[Len(shXOut[n]) + 1]} :
         \E r \in {processCrossover(shLP, x, x)} :
           /\ shLP' = r.lp
           /\ shXOut' = [shXOut EXCEPT
                           ![n] = Append(@, <<r.leftLow, r.leftHigh,
                                              r.rightLow, r.rightHigh>>)]
    /\ shForeign' = (shForeign \/ shWriter.crossover \notin {0, n})
    /\ shWriter' = [shWriter EXCEPT !.crossover = n]
    /\ UNCHANGED <<shStream, shAmount, shDetune, shDOut, spVars, rvVars, restSH>>

\* Instance n processes its next sample with processHarmonicDetuning.
InstProcessHarmonicDetuning ==
  \E n \in Instances :
    /\ Len(shDOut[n]) < MaxSharedCalls
    /\ \E x \in {shStream[Len(shDOut[n]) + 1]} :
         \E r \in {processHarmonicDetuning(shDetune, x, x, DetuneParams(shAmount))} :
           /\ shDetune' = r.st
           /\ shDOut' = [shDOut EXCEPT ![n] = Append(@, <<r.left, r.right>>)]
    /\ IF DetuneDisabled(DetuneParams(shAmount))
         THEN UNCHANGED <<shForeign, shWriter>>
         ELSE /\ shForeign' = (shForeign \/ shWriter.detune \notin {0, n})
              /\ shWriter' = [shWriter EXCEPT !.detune = n]
    /\ UNCHANGED <<shStream, shAmount, shLP, shXOut, spVars, rvVars, restSH>>

NextShared == InstProcessCrossover \/ InstProcessHarmonicDetuning

InitShared == SHInit

SpecShared == InitShared /\ [][NextShared]_vars

(***************************************************************************)
(* SpectrumAnalyzer::update() with no frame pending: the smoothing loop    *)
(* and updateAnimation(), on vectors of ScopeBins elements (1-based).      *)
(***************************************************************************)
\* The constructor's settings.
smoothingCoefficient == Fx(2, 10)
animationSpeed == Fx(5, 100)
damping == Fx(97, 100)
tension == Fx(25, 1000)
spreadFactor == Fx(2, 10)

\* spectrumValues[i] = previous + smoothingCoefficient * (target - previous)
smoothSpectrum(values, target) ==
  [i \in DOMAIN values |->
     values[i] + Mul(smoothingCoefficient, target[i] - values[i])]

\* updateAnimation() with the spread loops run over every bin, the two end
\* bins taking the bin at the other end as their missing neighbour.
updateAnimationWrapped(points, velocities, spectrum) ==
  LET n       == Len(points)
      targets == spectrum
      pushed1 == [i \in 1..n |->
                    velocities[i] + Mul(tension, targets[i] - points[i])]
      moved   == [i \in 1..n |-> points[i] + Mul(pushed1[i], animationSpeed)]
      damped  == [i \in 1..n |-> Mul(pushed1[i], damping)]
      left(i)  == IF i = 1 THEN n ELSE i - 1
      right(i) == IF i = n THEN 1 ELSE i + 1
      spread  == [i \in 1..n |->
                    Mul(spreadFactor,
                        (moved[left(i)] - moved[i]) + (moved[right(i)] - moved[i]))]
  IN  [ waveTargets |-> targets,
        wavePoints |-> moved,
        waveVelocities |-> [i \in 1..n |-> damped[i] + spread[i]],
        spreadForces |-> spread ]

\* updateAnimation(): the vectors after the call and the spread forces it
\* computed.
updateAnimation(points, velocities, spectrum) ==
  LET n       == Len(points)
      targets == spectrum
      pushed1 == [i \in 1..n |->
                    velocities[i] + Mul(tension, targets[i] - points[i])]
      moved   == [i \in 1..n |-> points[i] + Mul(pushed1[i], animationSpeed)]
      damped  == [i \in 1..n |-> Mul(pushed1[i], damping)]
      spread  == [i \in 1..n |->
                    IF 1 < i /\ i < n
                      THEN Mul(spreadFactor,
                               (moved[i - 1] - moved[i]) + (moved[i + 1] - moved[i]))
                      ELSE 0]
  IN  [ waveTargets |-> targets,
        wavePoints |-> moved,
        waveVelocities |-> [i \in 1..n |-> damped[i] + spread[i]],
        spreadForces |-> spread ]

\* Levels of a spectrum bin.
Levels == {0, Fx(1, 2), One}

\* The display is either as constructed (all zero) or has settled on the
\* target spectrum.
ANInit ==
  /\ SAInit /\ HistInit /\ ThreadsIdle /\ NoEngine
  /\ HFIdle /\ DTIdle /\ FSIdle /\ CCIdle /\ APIdle /\ AMIdle /\ CMIdle /\ PFIdle /\ UAIdle /\ SHIdle /\ PLIdle
  /\ targetSpectrumValues \in [1..ScopeBins -> Levels]
  /\ spectrumValues \in {Zeros(ScopeBins), targetSpectrumValues}
  /\ wavePoints = spectrumValues
  /\ waveTargets = spectrumValues
  /\ waveVelocities = Zeros(ScopeBins)
  /\ spreadForces = Zeros(ScopeBins)
  /\ animCalls = 0

UpdateDisplay ==
  /\ animCalls < MaxAnimCalls
  /\ \E sm \in {smoothSpectrum(spectrumValues, targetSpectrumValues)} :
       \E r \in {updateAnimation(wavePoints, waveVelocities, sm)} :
         /\ spectrumValues' = sm
         /\ waveTargets' = r.waveTargets
         /\ wavePoints' = r.wavePoints
         /\ waveVelocities' = r.waveVelocities
         /\ spreadForces' = r.spreadForces
  /\ animCalls' = animCalls + 1
  /\ UNCHANGED <<targetSpectrumValues, spVars, rvVars, restAN>>

NextAnim == UpdateDisplay

InitAnim == ANInit

SpecAnim == InitAnim /\ [][NextAnim]_vars

(***************************************************************************)
(* Plugin: the audio thread's processBlock hands each analysed frame to    *)
(* the editor's SpectrumAnalyzerComponent through the plain pointer        *)
(* CustomReverbAudioProcessor::spectrumAnalyzer; the message thread        *)
(* constructs and destroys the component and runs its timerCallback.       *)
(* Neither side takes a lock, so the steps are the single loads, stores    *)
(* and loop iterations.                                                    *)
(***************************************************************************)
guiVars == <<guiPc, guiPos, plTimers, plSpectrum>>
audVars == <<audPc, audChecked, audCallee, audWritePos, plScope, plBlocks>>

\* The component updateSpectrum runs on still has its vectors.
CalleeLive == audCallee = plEditors /\ compState \in {"alive", "unregistered"}

PLInit ==
  /\ spectrumAnalyzer = 0
  /\ compState = "none"
  /\ plEditors = 0
  /\ plTarget = <<>>
  /\ plSpectrum = <<>>
  /\ guiPc = "idle"
  /\ guiPos = 0
  /\ plTimers = 0
  /\ audPc = "idle"
  /\ audChecked = 0
  /\ audCallee = 0
  /\ audWritePos = 0
  /\ plScope = Zeros(PlugBins)
  /\ plReady = FALSE
  /\ plBlocks = 0
  /\ calledUnregistered = FALSE
  /\ plFault = "none"

\* message thread: SpectrumAnalyzerComponent(processor), as a member of a
\* newly opened editor: the vectors are sized, then
\* processor.setSpectrumAnalyzer(this); startTimerHz(60)
Gui_Construct ==
  /\ guiPc = "idle"
  /\ compState \in {"none", "destroyed"}
  /\ plEditors < MaxEditors
  /\ plEditors' = plEditors + 1
  /\ plTarget' = Zeros(PlugBins)
  /\ plSpectrum' = Zeros(PlugBins)
  /\ spectrumAnalyzer' = plEditors + 1
  /\ compState' = "alive"
  /\ UNCHANGED <<guiPc, guiPos, plTimers, audVars, plReady, calledUnregistered,
                 plFault, spVars, rvVars, restPL>>

\* message thread: ~SpectrumAnalyzerComponent():
\* processorRef.setSpectrumAnalyzer(nullptr)
Gui_Unregister ==
  /\ guiPc = "idle"
  /\ compState = "alive"
  /\ spectrumAnalyzer' = 0
  /\ compState' = "unregistered"
  /\ guiPc' = "destructor"
  /\ UNCHANGED <<plEditors, plTarget, plSpectrum, guiPos, plTimers, audVars,
                 plReady, calledUnregistered, plFault, spVars, rvVars, restPL>>

\* message thread: stopTimer(); the members are destroyed
Gui_Destroy ==
  /\ guiPc = "destructor"
  /\ compState' = "destroyed"
  /\ plTarget' = <<>>
  /\ plSpectrum' = <<>>
  /\ guiPc' = "idle"
  /\ UNCHANGED <<spectrumAnalyzer, plEditors, guiPos, plTimers, audVars, plReady,
                 calledUnregistered, plFault, spVars, rvVars, restPL>>

\* message thread: the timer fires, timerCallback() is entered
Gui_TimerCallback ==
  /\ guiPc = "idle"
  /\ compState = "alive"
  /\ plTimers < MaxTimers
  /\ guiPc' = "timer"
  /\ guiPos' = 1
  /\ plTimers' = plTimers + 1
  /\ UNCHANGED <<spectrumAnalyzer, compState, plEditors, plTarget, plSpectrum,
                 audVars, plReady, calledUnregistered, plFault, spVars, rvVars,
                 restPL>>

\* message thread: one iteration of timerCallback's smoothing loop, reading
\* targetSpectrumValues[i]; after the last one updateAnimation() and
\* repaint() work on the component's own vectors and the callback returns
Gui_TimerRead ==
  /\ guiPc = "timer"
  /\ plSpectrum' =
       [plSpectrum EXCEPT ![guiPos] =
          @ + Mul(smoothingCoefficient, plTarget[guiPos] - @)]
  /\ guiPos' = IF guiPos = PlugBins THEN 0 ELSE guiPos + 1
  /\ guiPc' = IF guiPos = PlugBins THEN "idle" ELSE "timer"
  /\ UNCHANGED <<spectrumAnalyzer, compState, plEditors, plTarget, plTimers,
                 audVars, plReady, calledUnregistered, plFault, spVars, rvVars,
                 restPL>>

\* audio thread: processBlock is called and runs its sample loop;
\* pushNextSampleIntoFifo raises nextFFTBlockReady when the FIFO fills
Blk_ProcessBlock ==
  /\ audPc = "idle"
  /\ plBlocks < MaxBlocks
  /\ plBlocks' = plBlocks + 1
  /\ plReady' \in {plReady, TRUE}
  /\ audPc' = "check"
  /\ UNCHANGED <<spectrumAnalyzer, compState, plEditors, plTarget, guiVars,
                 audChecked, audCallee, audWritePos, plScope,
                 calledUnregistered, plFault, spVars, rvVars, restPL>>

\* audio thread: if (nextFFTBlockReady && spectrumAnalyzer != nullptr)
Blk_Check ==
  /\ audPc = "check"
  /\ audChecked' = spectrumAnalyzer
  /\ audPc' = IF plReady /\ spectrumAnalyzer # 0 THEN "calculate" ELSE "idle"
  /\ UNCHANGED <<spectrumAnalyzer, compState, plEditors, plTarget, guiVars,
                 audCallee, audWritePos, plScope, plBlocks, plReady,
                 calledUnregistered, plFault, spVars, rvVars, restPL>>

\* audio thread: calculateFrequencySpectrum() fills scopeData
Blk_Calculate ==
  /\ audPc = "calculate"
  /\ plScope' \in [1..PlugBins -> Levels]
  /\ audPc' = "call"
  /\ UNCHANGED <<spectrumAnalyzer, compState, plEditors, plTarget, guiVars,
                 audChecked, audCallee, audWritePos, plBlocks, plReady,
                 calledUnregistered, plFault, spVars, rvVars, restPL>>

\* audio thread: spectrumAnalyzer->updateSpectrum(scopeData, scopeSize) is
\* entered.  The pointer is a plain member written by the other thread: the
\* call goes through the value the check loaded or through a fresh load.
Blk_Call ==
  /\ audPc = "call"
  /\ \E p \in {audChecked, spectrumAnalyzer} :
       /\ audCallee' = p
       /\ IF p = 0
            THEN /\ plFault' = "nullCall"
                 /\ audPc' = "fault"
                 /\ UNCHANGED <<audWritePos, calledUnregistered>>
            ELSE /\ calledUnregistered' =
                      (calledUnregistered \/ ~(p = plEditors /\ compState = "alive"))
                 /\ audPc' = "write"
                 /\ audWritePos' = 1
                 /\ UNCHANGED plFault
  /\ UNCHANGED <<spectrumAnalyzer, compState, plEditors, plTarget, guiVars,
                 audChecked, plScope, plBlocks, plReady, spVars, rvVars, restPL>>

\* audio thread: one iteration of updateSpectrum's loop,
\* targetSpectrumValues[i] = spectrumData[i]; the call returns after the
\* last one.  On a destroyed component the store goes to freed memory.
Blk_Write ==
  /\ audPc = "write"
  /\ IF CalleeLive
       THEN /\ plTarget' = [plTarget EXCEPT ![audWritePos] = plScope[audWritePos]]
            /\ audWritePos' = IF audWritePos = PlugBins THEN 0 ELSE audWritePos + 1
            /\ audPc' = IF audWritePos = PlugBins THEN "clear" ELSE "write"
            /\ UNCHANGED plFault
       ELSE /\ plFault' = "useAfterFree"
            /\ audPc' = "fault"
            /\ UNCHANGED <<plTarget, audWritePos>>
  /\ UNCHANGED <<spectrumAnalyzer, compState, plEditors, guiVars, audChecked,
                 audCallee, plScope, plBlocks, plReady, calledUnregistered,
                 spVars, rvVars, restPL>>

\* audio thread: nextFFTBlockReady = false; processBlock returns
Blk_ClearFlag ==
  /\ audPc = "clear"
  /\ plReady' = FALSE
  /\ audPc' = "idle"
  /\ UNCHANGED <<spectrumAnalyzer, compState, plEditors, plTarget, guiVars,
                 audChecked, audCallee, audWritePos, plScope, plBlocks,
                 calledUnregistered, plFault, spVars, rvVars, restPL>>

NextPlugin ==
  \/ Gui_Construct \/ Gui_Unregister \/ Gui_Destroy
  \/ Gui_TimerCallback \/ Gui_TimerRead
  \/ Blk_ProcessBlock \/ Blk_Check \/ Blk_Calculate \/ Blk_Call \/ Blk_Write
  \/ Blk_ClearFlag

InitPlugin ==
  /\ SAInit /\ HistInit /\ ThreadsIdle /\ NoEngine
  /\ HFIdle /\ DTIdle /\ FSIdle /\ CCIdle /\ APIdle /\ AMIdle /\ CMIdle /\ PFIdle /\ UAIdle /\ SHIdle /\ ANIdle
  /\ PLInit

SpecPlugin == InitPlugin /\ [][NextPlugin]_vars

(***************************************************************************)
(* Properties of the FIFO exchange.                                        *)
(***************************************************************************)
SameFrame(f, g) == \A i \in 1..fftSize : f[i] = g[i]
Window(n) == [i \in 1..fftSize |-> pushed[n - fftSize + i]]
Wrapped == Len(pushed) - fifoIndex

\* C1 (as claimed): no pushed sample is dropped: every sample that has left
\* the FIFO was part of a snapshot copied into the analysis buffer.
C1_NoSampleDropped == \A k \in 1..Wrapped : k \in copied

\* C1 (amended): when pushSample finds the FIFO full, the window is copied
\* whole into the analysis buffer if no frame is pending, and is discarded
\* whole (analysis buffer and set of snapshotted samples unchanged) if the
\* ready flag is still set.
C1_WindowCopiedOrDiscarded ==
  [][ (fifoIndex = fftSize /\ lastOp' = "push" /\ Len(pushed') = Len(pushed) + 1)
        => IF ~nextFFTBlockReady
             THEN /\ SameFrame(fftData', fifo)
                  /\ nextFFTBlockReady'
                  /\ \A k \in (Len(pushed) - fftSize + 1)..Len(pushed) : k \in copied'
             ELSE /\ fftData' = fftData
                  /\ nextFFTBlockReady'
                  /\ copied' = copied
                  /\ fifoIndex' = 1 ]_vars

C1_Witness ==
  /\ Len(pushed) = 2 * fftSize + 1
  /\ copied = 1..fftSize
  /\ fifoIndex = 1

\* C2 (as claimed): immediately after the fftSize-th pushSample the ready
\* flag is up, the analysis buffer holds those samples and the FIFO is empty.
C2_SnapshotWhenFull ==
  Len(pushed) = fftSize =>
    /\ nextFFTBlockReady
    /\ SameFrame(fftData, pushed)
    /\ fifoIndex = 0

\* C2 (amended): after the fftSize-th pushSample the FIFO is full, the flag
\* is still down and the analysis buffer untouched; the (fftSize+1)-th
\* pushSample raises the flag, leaves the first fftSize samples in the
\* analysis buffer in push order, and the FIFO holds only the new sample.
C2_SnapshotOnNextPush ==
  /\ Len(pushed) = fftSize =>
       /\ ~nextFFTBlockReady
       /\ fifoIndex = fftSize
       /\ SameFrame(fifo, pushed)
       /\ fftData = Zeros(fftSize)
  /\ (Len(pushed) = fftSize + 1 /\ lastOp = "push") =>
       /\ nextFFTBlockReady
       /\ SameFrame(fftData, pushed)
       /\ fifoIndex = 1
       /\ fifo[1] = pushed[fftSize + 1]

C2_Witness ==
  /\ Len(pushed) = fftSize + 1
  /\ lastOp = "push"
  /\ \E i \in 1..fftSize : fftData[i] # fifo[i]

\* C3: update() never reads the analysis buffer while pushSample is copying
\* the FIFO into it, and pushSample never copies over a frame update() is
\* still reading.
C3_SnapshotAtomic == ~(pcA = "copy" /\ pcR = "analyse")

\* C4: the ready flag rises only in a pushSample that finds the FIFO full,
\* falls only in update(), update() analyses at most one frame (one exactly
\* when the flag was up) and leaves the flag down.
C4_Cycle ==
  [][ /\ (~nextFFTBlockReady /\ nextFFTBlockReady')
          => (lastOp' = "push" /\ fifoIndex = fftSize /\ fifoIndex' = 1)
      /\ (nextFFTBlockReady /\ ~nextFFTBlockReady')
          => (lastOp' = "update" /\ nAnalysed' = 1 /\ SameFrame(analysed', fftData))
      /\ (lastOp' = "update")
          => (~nextFFTBlockReady' /\ nAnalysed' \in {0, 1}
              /\ (nAnalysed' = 1 <=> nextFFTBlockReady)) ]_vars

C4_Witness ==
  /\ lastOp = "update"
  /\ nAnalysed = 1
  /\ ~nextFFTBlockReady
  /\ Len(pushed) > fftSize
  /\ SameFrame(analysed, pushed)

\* C5: while a frame is pending (ready flag set), a pushSample call leaves
\* the analysis buffer and the flag as they are; it writes only the FIFO
\* and fifoIndex.
C5_DoubleBuffer ==
  [][ (nextFFTBlockReady /\ lastOp' = "push")
        => (fftData' = fftData /\ nextFFTBlockReady' /\ analysed' = analysed) ]_vars

C5_Witness ==
  /\ nextFFTBlockReady
  /\ lastOp = "push"
  /\ Len(pushed) > 2 * fftSize
  /\ \E i \in 1..fftSize : fftData[i] # pushed[fftSize + i]

(***************************************************************************)
(* Properties of the reverb engine.                                        *)
(***************************************************************************)
EngineAtRest(e) ==
  /\ \A i \in 1..numCombs : AllZero(e.combDelayLines[i])
  /\ \A i \in 1..numAllPasses : AllZero(e.allpassDelayLines[i])
  /\ \A i \in 1..numHighFreqDelays : AllZero(e.highFreqDelayLines[i])
  /\ AllZero(e.previousCombs)
  /\ AllZero(e.lowpassState)
  /\ AllZero(e.highpassState)

\* C6: silence invariance: on an engine with non-empty delay lines and
\* freezeMode = 0 that has only ever been fed zeros, every delay line, damping
\* state and crossover state is zero, and the buffers processStereo returns
\* are all zero.
C6_SilenceInvariance ==
  (silent /\ fault = "none" /\ LinesNonEmpty(reverb)
     /\ reverb.parameters.freezeMode = 0)
    => /\ EngineAtRest(reverb)
       /\ lastCall = "processStereo"
            => (AllZero(leftBuffer) /\ AllZero(rightBuffer))

C6_Witness ==
  /\ lastCall = "processStereo"
  /\ silent
  /\ fault = "none"
  /\ reverb.parameters.freezeMode = 0
  /\ Len(leftBuffer) = MaxBlock
  /\ Len(rightBuffer) = MaxBlock
  /\ reverb.combIndices[1] # 0

\* C7: for every roomSize in [0,1) the feedback coefficient of every comb,
\* as setParameters computes it, is strictly less than 1.
C7_FeedbackBelowUnity ==
  reverb.parameters.roomSize < One
    => \A i \in 1..numCombs : reverb.feedbackCoeffs[i] < One

\* C8: freeze persistence: with freezeMode = 1.0, once a non-zero sample has
\* been fed into the comb bank, the comb delay lines never become all-zero.
C8_FreezePersistence ==
  (fault = "none" /\ reverb.parameters.freezeMode = One /\ frozenEnergy)
    => \E i \in 1..numCombs : ~AllZero(reverb.combDelayLines[i])

\* C9: with freezeMode = 1.0 the comb delay lines after processComb do not
\* depend on the input sample: any two inputs leave the same contents.
C9_FreezeNoInjection ==
  (fault = "none" /\ LinesNonEmpty(reverb) /\ reverb.parameters.freezeMode = One)
    => \A i \in 1..numCombs : \A a, b \in InputSamples :
         processComb(reverb, i, a).e.combDelayLines
           = processComb(reverb, i, b).e.combDelayLines

\* C10: a processing call on an engine one of whose delay lines is empty
\* fails explicitly (is rejected) instead of indexing the empty line and
\* taking a cursor modulo its zero length.
C10_UnconfiguredCallRejected ==
  /\ fault \in {"none", "rejected"}
  /\ (lastCall \in {"processMono", "processStereo"} /\ Len(leftBuffer) > 0
        /\ ~LinesNonEmpty(reverb))
       => fault = "rejected"

LinesCleared(e) ==
  /\ \A i \in 1..numCombs : AllZero(e.combDelayLines[i])
  /\ \A i \in 1..numAllPasses : AllZero(e.allpassDelayLines[i])
  /\ \A i \in 1..numHighFreqDelays : AllZero(e.highFreqDelayLines[i])

\* C11: after setSampleRate returns, every comb, allpass and high-frequency
\* delay line holds only zeros, whatever was processed before the call.
C11_SetSampleRateClears ==
  (lastCall = "setSampleRate" /\ fault = "none") => LinesCleared(reverb)

InLine(k, line) == 0 <= k /\ k < Len(line)

ConfiguredDelay(e) == TruncDiv(maxHighFreqDelay * e.parameters.highFreqDelay, One)

\* C13: at 44.1 kHz, for every highFreqDelay in [0,1], processHighFreqDelay
\* returns the sample passed on the same channel floor(500*highFreqDelay)
\* calls earlier, and zero while fewer calls than that were made since reset.
C13_HighFreqDelayExact ==
  hfChannel # 0 =>
    LET n == Len(hfIn[hfChannel])
        d == ConfiguredDelay(reverb)
    IN  hfOut = IF n > d THEN hfIn[hfChannel][n - d] ELSE 0

\* C14: with amount > 0.001 the value mixed into each channel is the sample
\* written into that channel's buffer a small number of calls earlier: the
\* slot read back has been written once more calls than the offset were
\* made, and its age in calls is at most the offset (1 + 10*amount for the
\* left channel, 1 + 8*amount for the right; about 10 at amount = 1.0).
C14_DetuneLagSmall ==
  (dtCalls > 0 /\ ~DetuneDisabled(dtParams)) =>
    /\ dtCalls > OddOffset(dtParams.amount) => dtRead.odd # 0
    /\ dtRead.odd # 0 => dtCalls - dtRead.odd <= OddOffset(dtParams.amount)
    /\ dtCalls > EvenOffset(dtParams.amount) => dtRead.even # 0
    /\ dtRead.even # 0 => dtCalls - dtRead.even <= EvenOffset(dtParams.amount)

\* C15: at the last sample processStereo processed, with width = 1.0 the wet
\* left and right signals are the left and right allpass outputs, and with
\* width = 0.0 the wet left and wet right signals are equal.
C15_StereoWidth ==
  (fault = "none" /\ stereoTap.valid) =>
    /\ stereoTap.spread = One =>
         (stereoTap.wetL = stereoTap.allpassOutL
            /\ stereoTap.wetR = stereoTap.allpassOutR)
    /\ stereoTap.spread = 0 => stereoTap.wetL = stereoTap.wetR

\* C16 (as claimed): after every splitFrequencies call, low + high (added as
\* floats) equals the input and the new channel state equals low.
C16_SplitExact ==
  fsChannel # 0 =>
    /\ FAdd(fsOut.low, fsOut.high) = fsIn
    /\ fsState[fsChannel] = fsOut.low

\* C16 (amended): after every splitFrequencies call the new channel state
\* equals low, high is the float nearest to input - low, so the exact sum
\* low + high differs from the input by at most half the spacing of the
\* floats at high, and is equal to it whenever input - low is a float.
C16_SplitResidual ==
  fsChannel # 0 =>
    /\ fsState[fsChannel] = fsOut.low
    /\ fsOut.high = FSub(fsIn, fsOut.low)
    /\ 2 * Abs(fsOut.low + fsOut.high - fsIn) <= QuantumFrom(Abs(fsOut.high), 1, 1)
    /\ RoundRat(fsIn - fsOut.low, 1) = fsIn - fsOut.low
         => fsOut.low + fsOut.high = fsIn

\* A call whose subtraction input - low had to be rounded.
C16_Witness ==
  /\ fsChannel # 0
  /\ fsCalls = MaxSplitCalls
  /\ fsBefore # 0
  /\ fsOut.low + fsOut.high # fsIn

\* The coefficients of a view are the ones setParameters derives from its
\* parameters.
Consistent(v) ==
  LET x == setParameters(reverb, v.parameters)
  IN  /\ v.feedbackCoeffs = x.feedbackCoeffs
      /\ v.dampCoeffs = x.dampCoeffs
      /\ v.lowpassCoeff = x.lowpassCoeff
      /\ v.highFreqDelayAmount = x.highFreqDelayAmount

\* C17: with setParameters running on a control thread, every sample of a
\* processStereo batch is computed from one parameter set and from the
\* coefficients derived from that set.
C17_BatchSeesOneParameterSet ==
  /\ Cardinality(audSeen) <= 1
  /\ \A v \in audSeen : Consistent(v)

\* C18: after setReverbParameters(p), getReverbParameters() returns p, the
\* parameters the reverb currently uses.
C18_GetReturnsLastSet ==
  (apLast = "getReverbParameters" /\ apLastSet # <<>>) =>
    /\ apGot = apLastSet
    /\ apGot = <<reverb.parameters>>

\* C19: after setAnimationMode(m) with any int m the stored animation mode
\* is 0, 1 or 2, and after setColorScheme(s) the stored colour scheme is 0,
\* 1 or 2.
C19_ModeInRange ==
  /\ modeArg # <<>> => animationMode \in {0, 1, 2}
  /\ schemeArg # <<>> => colorScheme \in {0, 1, 2}

\* C20: calculateMagnitudeSpectrum never evaluates the Hann window formula
\* with the divisor numSamples - 1 equal to zero (a call with numSamples <= 1
\* does not get that far), and a call with numSamples > size writes no
\* element of the transform buffer beyond its size elements.
C20_WindowGuarded ==
  cmCalls > 0 =>
    /\ 0 \notin cmDivisors
    /\ cmNumSamples <= 1 => (cmDivisors = {} /\ cmFault = "none")
    /\ cmNumSamples > cmSize => cmWrites \subseteq 0..(cmSize - 1)

(***************************************************************************)
(* Properties of FFT::perform.                                             *)
(***************************************************************************)
\* buffer[0] = 1, every other element 0
UnitImpulse(order) == [i \in 0..(2^order - 1) |-> IF i = 0 THEN Cx(One, 0) ELSE Cx(0, 0)]

\* C21: perform applied to the unit impulse at index 0 leaves a flat
\* spectrum: every element of the buffer is 1 + 0i, for every order.
C21_ImpulseFlatSpectrum ==
  (pfCalls > 0 /\ pfInput = UnitImpulse(pfOrder))
    => \A i \in 0..(2^pfOrder - 1) : pfData[i] = Cx(One, 0)

\* An eight-point transform of the unit impulse has been performed.
C21_Witness ==
  /\ pfCalls > 0
  /\ pfOrder = 3
  /\ pfInput = UnitImpulse(3)
  /\ pfData[7] = Cx(One, 0)

\* The index whose `bits`-bit binary representation is the reverse of i's.
RECURSIVE ReverseBits(_, _)
ReverseBits(bits, i) ==
  IF bits = 0 THEN 0
  ELSE (i % 2) * 2^(bits - 1) + ReverseBits(bits - 1, i \div 2)

\* C27: the first pass of perform moves the element at index i to the index
\* with the reversed order-bit representation, for every i, and the pass
\* applied to its own result gives the original buffer back.
C27_BitReversalPermutation ==
  pfCalls > 0 =>
    /\ \A i \in 0..(2^pfOrder - 1) :
         pfReversed[ReverseBits(pfOrder, i)] = pfInput[i]
    /\ BitReversalPass(2^pfOrder, pfReversed, 0, 0) = pfInput

\* An eight-point buffer with different elements at indices 1 and 3 has
\* been through the pass: they are now at indices 4 and 6.
C27_Witness ==
  /\ pfCalls > 0
  /\ pfOrder = 3
  /\ pfInput[1] = Cx(One, 0) /\ pfInput[3] = Cx(-One, 0)
  /\ pfReversed[4] = Cx(One, 0) /\ pfReversed[6] = Cx(-One, 0)
  /\ pfReversed # pfInput

(***************************************************************************)
(* Properties of the processing loops.                                     *)
(***************************************************************************)
\* C22: a processMono or processStereo call of n samples runs every comb
\* and every allpass filter once per sample: each cursor ends n positions
\* further (modulo the length of its line).
C22_OneStepPerSample ==
  [][ (lastCall' \in {"processMono", "processStereo"}
         /\ fault' = "none" /\ LinesNonEmpty(reverb))
        => /\ \A i \in 1..numCombs :
                reverb'.combIndices[i] =
                  (reverb.combIndices[i] + Len(leftBuffer'))
                     % Len(reverb.combDelayLines[i])
           /\ \A i \in 1..numAllPasses :
                reverb'.allpassIndices[i] =
                  (reverb.allpassIndices[i] + Len(leftBuffer'))
                     % Len(reverb.allpassDelayLines[i]) ]_vars

\* A freshly configured engine with the parameters and sample rate of e.
Fresh(e) ==
  Bind(setSampleRate(Constructed, e.sampleRate),
       LAMBDA x : setParameters(x, e.parameters))

\* C23: after reset() the engine processes every block as a freshly
\* configured engine with the same parameters and sample rate does,
\* whatever was processed before the reset.
C23_ResetEquivalent ==
  (lastCall = "reset" /\ LinesNonEmpty(reverb))
    => \A buffer \in [1..ProbeLen -> InputSamples] :
         processMono(reverb, buffer).buffer
           = processMono(Fresh(reverb), buffer).buffer

(***************************************************************************)
(* Properties of the arrays of update().                                   *)
(***************************************************************************)
\* C24: every access of update() stays inside scopeData: the magnitude
\* bins written and the element read for each display bin are valid
\* indices of the array.
C24_UpdateInBounds ==
  uaCalls > 0 =>
    /\ uaScopeWrites \subseteq 0..(ScopeSizeOf(2^uaOrder) - 1)
    /\ \A i \in DOMAIN uaScopeReads :
         uaScopeReads[i] \in 0..(ScopeSizeOf(2^uaOrder) - 1)

(***************************************************************************)
(* Properties of two instances side by side.                               *)
(***************************************************************************)
\* The first k results of both instances agree, k being the number of
\* calls both have made.
SameSoFar(out) ==
  \A k \in 1..Len(out[1]) : k <= Len(out[2]) => out[1][k] = out[2][k]

\* C25: no call of one instance reads state that a call of the other
\* instance stored, and the two instances, fed the same samples, return the
\* same results whatever the interleaving of their calls.
C25_InstancesIndependent ==
  /\ ~shForeign
  /\ SameSoFar(shXOut)
  /\ SameSoFar(shDOut)

(***************************************************************************)
(* Properties of the derived coefficients.                                 *)
(***************************************************************************)
\* The coefficient fields of e are the ones its stored parameters and
\* sample rate give.
CoeffsDerived(e) ==
  /\ \A i \in 1..numCombs :
       /\ e.feedbackCoeffs[i] =
            TruncDiv((Fx(28, 100) + Mul(Fx(1, 2), e.parameters.roomSize))
                       * combTuning[i], 100)
       /\ e.dampCoeffs[i] = Mul(Fx(4, 10), e.parameters.damping)
  /\ e.highFreqDelayAmount = maxHighFreqDelay * e.parameters.highFreqDelay
  /\ e.lowpassCoeff = lowpassCoeffOf(e.parameters.crossover, e.sampleRate)

\* The fields the coefficients are derived from, and the coefficients.
CoeffFields(e) ==
  <<e.parameters, e.sampleRate, e.feedbackCoeffs, e.dampCoeffs,
    e.highFreqDelayAmount, e.lowpassCoeff>>

\* C26: after every sequence of calls the coefficients are the ones derived
\* from the stored parameters and sample rate, and processMono,
\* processStereo and reset() leave them and the parameters as they were.
C26_CoefficientsNeverStale ==
  /\ [](CoeffsDerived(reverb))
  /\ [][ lastCall' \in {"processMono", "processStereo", "reset"}
           => CoeffFields(reverb') = CoeffFields(reverb) ]_vars

\* The sample rate was changed after the parameters: the crossover
\* coefficient is not the constructor's any more.
C26_Witness ==
  /\ nCalls = 2
  /\ lastCall = "setSampleRate"
  /\ reverb.parameters # DefaultParameters
  /\ reverb.lowpassCoeff # Constructed.lowpassCoeff
  /\ CoeffsDerived(reverb)

(***************************************************************************)
(* Liveness of the FIFO exchange.                                          *)
(***************************************************************************)
\* C28: when pushSample and update() keep being called, a raised ready flag
\* is eventually cleared by an update() that analyses the frame, and while
\* the flag is down a new frame eventually becomes ready.
C28_PipelineLive ==
  /\ nextFFTBlockReady
       ~> (~nextFFTBlockReady /\ lastOp = "update" /\ nAnalysed = 1)
  /\ ~nextFFTBlockReady ~> nextFFTBlockReady

\* A frame has been analysed and the next one is ready.
C28_Witness ==
  /\ nextFFTBlockReady
  /\ analysed # Zeros(fftSize)
  /\ fftData # analysed

(***************************************************************************)
(* Properties of the wave animation.                                       *)
(***************************************************************************)
\* Every velocity is zero and every point sits on its target.
AtRest ==
  /\ spectrumValues = targetSpectrumValues
  /\ wavePoints = spectrumValues
  /\ \A i \in 1..ScopeBins : waveVelocities[i] = 0

\* The spread force the target spectrum exerts on bin i of a display at rest.
TargetSpread(i) ==
  Mul(spreadFactor,
      (targetSpectrumValues[i - 1] - targetSpectrumValues[i])
        + (targetSpectrumValues[i + 1] - targetSpectrumValues[i]))

\* C29 as stated: a step taken at rest changes no point and no velocity,
\* whatever the target spectrum, and the first and last bin never get a
\* spread force.
C29_TargetIsRestState ==
  [][ /\ AtRest => (wavePoints' = wavePoints /\ waveVelocities' = waveVelocities)
      /\ spreadForces'[1] = 0 /\ spreadForces'[ScopeBins] = 0 ]_vars

\* C29: a step taken at rest changes no point and leaves the velocity of the
\* first and the last bin at zero, while every bin between them gets the
\* spread force of its neighbours' targets as its velocity; the first and
\* last bin never get a spread force.
C29_RestKeepsPoints ==
  [][ /\ AtRest =>
           /\ wavePoints' = wavePoints
           /\ waveVelocities'[1] = 0 /\ waveVelocities'[ScopeBins] = 0
           /\ \A i \in 2..(ScopeBins - 1) : waveVelocities'[i] = TargetSpread(i)
      /\ spreadForces'[1] = 0 /\ spreadForces'[ScopeBins] = 0 ]_vars

\* One step has been taken at rest on a target that is not flat, and a bin
\* was set moving.
C29_Witness ==
  /\ animCalls = 1
  /\ spectrumValues = targetSpectrumValues
  /\ wavePoints = targetSpectrumValues
  /\ \E i \in 1..ScopeBins : targetSpectrumValues[i] # targetSpectrumValues[1]
  /\ \E i \in 2..(ScopeBins - 1) : waveVelocities[i] # 0

(***************************************************************************)
(* Properties of the plugin's hand-off of spectra to the editor.           *)
(***************************************************************************)
\* C30: processBlock never calls updateSpectrum on a component that has
\* unregistered itself, and updateSpectrum is never inside its loop over
\* targetSpectrumValues while timerCallback is inside its loop reading them.
C30_AnalyzerHandOffSafe ==
  /\ ~calledUnregistered
  /\ ~(audPc = "write" /\ guiPc = "timer")

====
